---- MODULE Spec2Model ----
(***************************************************************************)
(* A model of the rolling replication controller of pkg/replication:       *)
(* the replication lock (lockHosts / lock), the run (Enact, its feeder,    *)
(* the worker pool and the per-node updateOne goroutines), the             *)
(* replication-end handler, and the public calls Cancel, SetManifest,      *)
(* SetTimeout and WaitForReplication.                                      *)
(***************************************************************************)
EXTENDS Integers, Sequences, FiniteSets, TLC

\* ---------------------------------------------------------------- bounds
NumNodes == 2           \* nodes of the run
MaxActive == 2          \* largest pool size (r.active) tried
MaxSetManifest == 1     \* SetManifest calls per run
MaxCancel == 1          \* Cancel calls per run
RealityCap == 1         \* cap(concurrentRealityRequests)
NumRepls == 3           \* replications of one pod ID that call lockHosts
NumOrdered == 3         \* nodes of an allocation given to getRolloutOrder
MaxWaited == 13         \* longest wait of a queryReality followed, in units of 5 s
MaxCancels == 2         \* calls of Cancel() in the runs with repeated Cancel()
MaxNameLen == 2         \* characters of a node name
MaxListLen == 2         \* node names given to nodeIDsToStatusEndpoints

Nodes == 1..NumNodes
Repls == 1..NumRepls
Workers == 1..MaxActive

\* ------------------------------------------------------------- manifests
\* M1 is the manifest the run is built with; M1b is another manifest value
\* with the same content (hence the same hash); M2 has different content.
Manifests == {"M1", "M1b", "M2"}

\* manifest.SHA(): the content hash
SHA(m) == IF m = "M2" THEN "sha2" ELSE "sha1"

NoTimeout == "NoTimeout"
Timeouts == {NoTimeout, "finite"}

\* health.HealthState, ordered unknown < critical < warning < passing
HealthStates == {"unknown", "critical", "warning", "passing"}

VARIABLES
    \* fields of the replication struct
    active,                  \* r.active
    nodes,                   \* r.nodes (a sequence)
    completedCount,          \* r.completedCount
    manifest,                \* r.manifest
    timeout,                 \* r.timeout
    threshold,               \* r.threshold
    podLabels,               \* len(r.podLabels) > 0
    rateLimiter,             \* "nil" | "ticking" | "stopped"
    timedOutReplications,    \* r.timedOutReplications
    concurrentRealityRequests, \* slots of the semaphore in use
    nodeQueue,               \* caller's queue: "nil" | "open" | "closed"
    \* channels: "open" | "closed" (enactedCh also "nil")
    replicationCancelledCh, replicationDoneCh, quitCh, enactedCh, errCh,
    \* goroutines
    enactPc,                 \* position of Enact()
    feederPc,                \* position of the feeder goroutine
    nodeChan,                \* Enact's internal queue: "nil"|"open"|"closed"
    fed,                     \* nodes handed to the pool so far
    wpc, wnode,              \* worker w: position, node being updated
    upc, uman, ctx,          \* updater of node n: position, manifest, context
    hpc,                     \* position of handleReplicationEnd
    session,                 \* the run's session: "live" | "destroyed"
    waitPc,                  \* caller of WaitForReplication
    \* stores
    reality,                 \* hash of what node n ran before the run, or "none"
    intent,                  \* intent tree: manifest written for node n, or "none"
    issued,                  \* nodes whose intent transaction was sent to the store
    scheduled,               \* nodes for which shouldScheduleForNode returned true
    errLog,                  \* errors received on errCh
    \* bookkeeping of the environment
    setManifestCalls, cancelCalls,
    panicked,                \* a goroutine panicked: the process is gone
    \* lockHosts of the replications of one pod ID, and the store's lock
    overrideLock,            \* the overrideLock argument of replication r
    lpc,                     \* position of lockHosts / lock of replication r
    depth,                   \* 0 in the first call of lock, 1 in the recursive one
    heldId,                  \* the id LockHolder returned to r (0: none)
    calls,                   \* the store calls lockHosts of r made, with results
    sessions,                \* session of r: "none" | "live" | "destroyed"
    holders,                 \* sessions that hold the key at lockPath
    lockDelay,               \* the store's lock delay on the key is running
    destroyedBy,             \* who destroyed the session of r (0: nobody)
    \* what the stores and services of the run answer
    readFails,               \* r.store.Pod(REALITY_TREE, ...) may return an error
    writeFails,              \* SetPodTxn, SetLabelsTxn or the commit may fail
    serviceHealth,           \* what r.health.Service() returns, by node
    errReader,               \* the caller's receiver on errCh: "reading"|"stopped"
    \* checkForManaged
    rcLabel,                 \* GetLabels of node n's pod: "managed"|"plain"|"err"
    cfm,                     \* res: "notCalled" | "nil" | "managed" (the error
                             \* that names the nodes in bad) | "labelErr"
    \* the rollout order of getRolloutOrder
    ordNodes, ordStatus,     \* alloc.Nodes and the reference status, by node
    ordOut,                  \* res: "none" | "sorted" | "panic"; seq: the nodes
                             \* as sort.Sort left them
    \* the health aggregator (podHealth)
    curHealth,               \* p.curHealth: "nil" or the name of a snapshot
    condL,                   \* holder of p.cond.L: "free"|"ctor"|"watch"|"reader"
    ctorPc,                  \* position of AggregateHealth()
    watchPc,                 \* position of beginWatch
    watchRes,                \* res, received by beginWatch and not yet stored
    resultCh,                \* beginWatch's resultCh: "open" | "closed"
    wsPc,                    \* the goroutine of WatchService
    pQuit,                   \* p.quit: "open" | "closed"
    readPc,                  \* a caller of numOfHealth / GetHealth
    readAt,                  \* p.curHealth when that caller took the lock
    readView,                \* what it has read so far, host by host
    \* the health checker
    epNodes, epStanza,       \* arguments of nodeIDsToStatusEndpoints
    epOut,                   \* its result, and the node name parsed from each
    ckNodes,                 \* what serviceNodes returns: member or "absent"
    ckProbe,                 \* what the probe of node n returns
    ckPort,                  \* the port of the status stanza
    ckOut,                   \* op: which call returned or emitted; map: result
    \* queryReality against the clock
    qr,                      \* call for node n: pc, time since its select began
                             \* (since), time since the call began (waited), out
    \* what updateOne did for node n, kept in the runs that follow it (on)
    ulog                     \* of[n]: the result of the commit, of the last
                             \* read of the reality wait, of the last read of
                             \* the aggregator, and the value returned, in order

replFields == <<active, nodes, completedCount, manifest, timeout, threshold,
                podLabels, rateLimiter, timedOutReplications,
                concurrentRealityRequests, nodeQueue>>
chans == <<replicationCancelledCh, replicationDoneCh, quitCh, enactedCh, errCh>>
procs == <<enactPc, feederPc, nodeChan, fed, wpc, wnode, upc, uman, ctx,
           hpc, session, waitPc>>
stores == <<reality, intent, issued, scheduled, errLog>>
lockVars == <<overrideLock, lpc, depth, heldId, calls, sessions, holders,
              lockDelay, destroyedBy>>
inputs == <<readFails, writeFails, serviceHealth, errReader>>
aggVars == <<curHealth, condL, ctorPc, watchPc, watchRes, resultCh, wsPc,
             pQuit, readPc, readAt, readView>>
ckVars == <<epNodes, epStanza, epOut, ckNodes, ckProbe, ckPort, ckOut>>
funVars == <<rcLabel, cfm, ordNodes, ordStatus, ordOut, aggVars, ckVars, qr,
             ulog>>
env == <<setManifestCalls, cancelCalls, panicked, lockVars, inputs, funVars>>
runVars == <<replFields, chans, procs, stores, setManifestCalls, cancelCalls,
             panicked, inputs>>
vars == <<replFields, chans, procs, stores, env>>

\* what the nodes run before the replication: node 1 already runs a
\* manifest with the content of M1, the other nodes run nothing
RealityInits ==
    { [n \in Nodes |-> IF n = 1 THEN "sha1" ELSE "none"] }

\* what r.health.Service() reports in the runs over r.nodes: the last
\* node is critical, the others are passing
HealthSnapshots ==
    { [n \in Nodes |-> IF n = NumNodes THEN "critical" ELSE "passing"] }

\* ------------------------------------------------------------------ Init
\* The state after newReplication, once the factory has started
\* handleReplicationEnd and a caller waits in WaitForReplication(); Enact()
\* has not been called yet.
InitRunWith(th) ==
    /\ active \in 1..MaxActive
    /\ completedCount = 0
    /\ manifest = "M1"
    /\ threshold = th
    /\ podLabels = TRUE
    /\ timedOutReplications = <<>>
    /\ concurrentRealityRequests = 0
    /\ replicationCancelledCh = "open"
    /\ replicationDoneCh = "open"
    /\ quitCh = "open"
    /\ enactedCh = "nil"
    /\ errCh = "open"
    /\ enactPc = "notStarted"
    /\ feederPc = "none"
    /\ nodeChan = "nil"
    /\ fed = 0
    /\ wpc = [w \in Workers |-> "unspawned"]
    /\ wnode = [w \in Workers |-> 0]
    /\ upc = [n \in Nodes |-> "none"]
    /\ uman = [n \in Nodes |-> "none"]
    /\ ctx = [n \in Nodes |-> "none"]
    /\ hpc = "select"
    /\ session = "live"
    /\ waitPc = "waiting"
    /\ intent = [n \in Nodes |-> "none"]
    /\ issued = {}
    /\ scheduled = {}
    /\ errLog = <<>>
    /\ setManifestCalls = 0
    /\ cancelCalls = 0
    /\ panicked = FALSE

\* the replications of the runs below are built with an empty threshold
InitRun == InitRunWith("")

\* no replication has called lockHosts yet; the key is free
InitLocks ==
    /\ lpc = [r \in Repls |-> "start"]
    /\ depth = [r \in Repls |-> 0]
    /\ heldId = [r \in Repls |-> 0]
    /\ calls = [r \in Repls |-> <<>>]
    /\ sessions = [r \in Repls |-> "none"]
    /\ holders = {}
    /\ lockDelay = FALSE
    /\ destroyedBy = [r \in Repls |-> 0]

\* checkForManaged is not called
InitManaged ==
    /\ rcLabel = [n \in Nodes |-> "plain"]
    /\ cfm = [res |-> "notCalled", bad |-> <<>>]

\* getRolloutOrder is not called
InitOrderer ==
    /\ ordNodes = <<>>
    /\ ordStatus = <<>>
    /\ ordOut = [res |-> "none", seq |-> <<>>]

\* AggregateHealth is not called
InitAggregator ==
    /\ curHealth = "nil"
    /\ condL = "free"
    /\ ctorPc = "notCalled"
    /\ watchPc = "none"
    /\ watchRes = "nil"
    /\ resultCh = "open"
    /\ wsPc = "none"
    /\ pQuit = "open"
    /\ readPc = "idle"
    /\ readAt = "nil"
    /\ readView = <<>>

\* nodeIDsToStatusEndpoints is not called
InitEndpoints ==
    /\ epNodes = <<>>
    /\ epStanza = [http |-> FALSE, path |-> <<>>, port |-> "1"]
    /\ epOut = [res |-> "none", urls |-> <<>>, names |-> <<>>]

\* the health checker is not called
InitChecker ==
    /\ ckNodes = [n \in Nodes |-> "absent"]
    /\ ckProbe = [n \in Nodes |-> "absent"]
    /\ ckPort = 1
    /\ ckOut = [op |-> "none", map |-> [n \in Nodes |-> "absent"]]

InitReality ==
    qr = [n \in Nodes |-> [pc |-> "idle", since |-> 0, waited |-> 0, out |-> "none"]]

\* updateOne is not followed
InitNoLog ==
    ulog = [on |-> FALSE, of |-> [n \in Nodes |-> <<>>]]

\* none of the functions and components beside the run is called
InitIdle ==
    /\ InitManaged
    /\ InitOrderer
    /\ InitAggregator
    /\ InitEndpoints
    /\ InitChecker
    /\ InitReality
    /\ InitNoLog

InitFun == InitIdle

\* the node list in the caller's order, what the nodes run, a reality store
\* whose reads may fail, and the health the service reports
InitInputs ==
    /\ nodes = [i \in 1..NumNodes |-> i]
    /\ reality \in RealityInits
    /\ readFails = TRUE
    /\ writeFails = TRUE
    /\ serviceHealth \in HealthSnapshots
    /\ errReader = "reading"

\* the run of one replication that holds the lock
InitCommon ==
    /\ InitRun
    /\ InitInputs
    /\ InitFun
    /\ InitLocks
    /\ overrideLock = [r \in Repls |-> FALSE]

\* a run over a node list (nodeQueue nil)
Init ==
    /\ InitCommon
    /\ timeout = NoTimeout
    /\ nodeQueue = "nil"
    /\ rateLimiter = "ticking"

\* a run over a queue supplied by the caller
InitQueue ==
    /\ InitCommon
    /\ timeout = NoTimeout
    /\ nodeQueue = "open"
    /\ rateLimiter = "nil"

Running == ~panicked

\* the queue the pool reads: r.nodeQueue if given, else Enact's nodeChan
PoolQueue == IF nodeQueue # "nil" THEN nodeQueue ELSE nodeChan

\* ------------------------------------------------------- rollout ordering
\* health.SortOrder: least healthy first, then by node name
HealthBucket(h, n) ==
    IF n \notin DOMAIN h THEN 1
    ELSE CASE h[n] = "critical" -> 0
           [] h[n] = "unknown"  -> 1
           [] h[n] = "warning"  -> 2
           [] h[n] = "passing"  -> 3

OrderLess(h, a, b) ==
    \/ HealthBucket(h, a) < HealthBucket(h, b)
    \/ HealthBucket(h, a) = HealthBucket(h, b) /\ a < b

Range(s) == {s[i] : i \in DOMAIN s}

\* sort.Sort(order): the permutation of ns that is ascending for OrderLess
SortNodes(ns, h) ==
    CHOOSE s \in [DOMAIN ns -> Range(ns)] :
        /\ Range(s) = Range(ns)
        /\ \A i, j \in DOMAIN s : i < j => OrderLess(h, s[i], s[j])

\* ---------------------------------------------------------- rolloutOrder
\* node names of an allocation: 1 < 2 < 3 stand for "a" < "b" < "c"
OrdNames == 1..NumOrdered

\* what referenceStatus.ForNode(name) gives: a status that is healthy or
\* not, the error health.NoStatusGiven, or another error
OrdStatuses == {"healthy", "unhealthy", "nostatus", "error"}

\* the error ForNode returns with status st
OrdErr(st) ==
    CASE st = "nostatus" -> "NoStatusGiven"
      [] st = "error"    -> "other"
      [] OTHER           -> "nil"

\* the Healthy field of what ForNode returns with status st (the zero
\* value with an error)
OrdHealthy(st) == st = "healthy"

\* compareFromBool
compareFromBool(b) == IF b THEN -1 ELSE 1

\* rolloutOrder.compareErrors: -1 lessThan, 0 equal, 1 greaterThan
compareErrors(iErr, jErr) ==
    CASE iErr = "nil" /\ jErr # "nil" -> 1
      [] iErr # "nil" /\ jErr = "nil" -> -1
      [] iErr = "nil" /\ jErr = "nil" -> 0
      [] iErr = jErr /\ jErr = "NoStatusGiven" -> 0
      [] iErr = "NoStatusGiven" /\ jErr # "NoStatusGiven" -> 1
      [] iErr # "NoStatusGiven" /\ jErr = "NoStatusGiven" -> -1
      [] OTHER -> 0

\* rolloutOrder.compareHealth
compareHealth(iName, jName, iHealthy, jHealthy) ==
    CASE iHealthy /\ ~jHealthy -> 1
      [] iHealthy /\ jHealthy -> compareFromBool(iName < jName)
      [] ~iHealthy /\ jHealthy -> -1
      [] ~iHealthy /\ ~jHealthy -> compareFromBool(iName < jName)

\* rolloutOrder.Less for the nodes named a and b under the statuses st
RolloutLess(st, a, b) ==
    IF compareErrors(OrdErr(st[a]), OrdErr(st[b])) # 0
    THEN compareErrors(OrdErr(st[a]), OrdErr(st[b])) = -1
    ELSE IF compareHealth(a, b, OrdHealthy(st[a]), OrdHealthy(st[b])) # 0
         THEN compareHealth(a, b, OrdHealthy(st[a]), OrdHealthy(st[b])) = -1
         ELSE FALSE

\* sort.Sort(order): the arrangement of ns in which no later node is Less
\* than an earlier one
RolloutSort(ns, st) ==
    CHOOSE s \in [DOMAIN ns -> Range(ns)] :
        /\ Range(s) = Range(ns)
        /\ \A i, j \in DOMAIN s : i < j => ~RolloutLess(st, s[j], s[i])

\* Less dereferences the status ForNode returned for both nodes when both
\* lookups failed alike; that status is nil unless ForNode returns a value
\* with its error
OrdMayPanic(ns, st) ==
    \E a, b \in Range(ns) : a # b /\ OrdErr(st[a]) # "nil" /\ OrdErr(st[a]) = OrdErr(st[b])

\* getRolloutOrder(alloc, status): the nodes in the order they are put on
\* the channel, or the panic of a nil dereference
GetRolloutOrder ==
    /\ ordOut.res = "none"
    /\ \/ ordOut' = [res |-> "sorted", seq |-> RolloutSort(ordNodes, ordStatus)]
       \/ /\ OrdMayPanic(ordNodes, ordStatus)
          /\ ordOut' = [res |-> "panic", seq |-> <<>>]
    /\ UNCHANGED <<runVars, lockVars, ulog, rcLabel, cfm, ordNodes, ordStatus,
                   aggVars, ckVars, qr>>

\* ------------------------------------------------------- health aggregator
\* the values a watcher may send on resultCh: a nil map, an empty map, and
\* two maps with an entry for every node
Snapshots == {"nil", "empty", "allPassing", "allCritical"}

\* p.curHealth[host] with p.curHealth the map named m: the status and the
\* ok flag; a nil map and an empty map have no entry
MapEntry(m, host) ==
    CASE m = "allPassing"  -> "passing"
      [] m = "allCritical" -> "critical"
      [] OTHER             -> "absent"

\* what no step of the aggregator changes
AggFrame ==
    UNCHANGED <<runVars, lockVars, ulog, rcLabel, cfm, ordNodes, ordStatus, ordOut,
                ckVars, qr>>

\* p.cond.Broadcast(): a constructor asleep in p.cond.Wait() wakes up and
\* has to take p.cond.L again
Broadcast == ctorPc' = IF ctorPc = "wait" THEN "lock" ELSE ctorPc

\* AggregateHealth(): make p and start beginWatch, which starts the
\* goroutine of WatchService
AggregateHealth ==
    /\ ctorPc = "notCalled"
    /\ ctorPc' = "lock"
    /\ watchPc' = "select"
    /\ wsPc' = "running"
    /\ UNCHANGED <<curHealth, condL, watchRes, resultCh, pQuit, readPc,
                   readAt, readView>>
    /\ AggFrame

\* p.cond.L.Lock() in AggregateHealth, also on the way out of Wait()
CtorLock ==
    /\ ctorPc = "lock"
    /\ condL = "free"
    /\ condL' = "ctor"
    /\ ctorPc' = "check"
    /\ UNCHANGED <<curHealth, watchPc, watchRes, resultCh, wsPc, pQuit,
                   readPc, readAt, readView>>
    /\ AggFrame

\* a constructor that returns without looking at p.curHealth
CtorCheckNoWait ==
    /\ ctorPc = "check"
    /\ condL' = "free"
    /\ ctorPc' = "returned"
    /\ UNCHANGED <<curHealth, watchPc, watchRes, resultCh, wsPc, pQuit,
                   readPc, readAt, readView>>
    /\ AggFrame

\* for p.curHealth == nil { p.cond.Wait() }; p.cond.L.Unlock(); return p
CtorCheck ==
    /\ ctorPc = "check"
    /\ condL' = "free"
    /\ ctorPc' = IF curHealth = "nil" THEN "wait" ELSE "returned"
    /\ UNCHANGED <<curHealth, watchPc, watchRes, resultCh, wsPc, pQuit,
                   readPc, readAt, readView>>
    /\ AggFrame

\* case res, ok := <-resultCh with ok: the watcher's send meets the receive
WatchRecv(m) ==
    /\ watchPc = "select"
    /\ wsPc = "running"
    /\ resultCh = "open"
    /\ watchRes' = m
    /\ watchPc' = "store"
    /\ UNCHANGED <<curHealth, condL, ctorPc, resultCh, wsPc, pQuit, readPc,
                   readAt, readView>>
    /\ AggFrame

\* p.cond.L.Lock(); p.cond.Broadcast(); p.curHealth = res; p.cond.L.Unlock()
WatchStore ==
    /\ watchPc = "store"
    /\ condL = "free"
    /\ curHealth' = watchRes
    /\ Broadcast
    /\ watchPc' = "select"
    /\ UNCHANGED <<condL, watchRes, resultCh, wsPc, pQuit, readPc, readAt,
                   readView>>
    /\ AggFrame

\* case <-p.quit: return, or case res, ok := <-resultCh with !ok: return
WatchReturn ==
    /\ watchPc = "select"
    /\ pQuit = "closed" \/ resultCh = "closed"
    /\ watchPc' = "deferred"
    /\ UNCHANGED <<curHealth, condL, ctorPc, watchRes, resultCh, wsPc, pQuit,
                   readPc, readAt, readView>>
    /\ AggFrame

\* a deferred function that leaves p.curHealth as it is
WatchDeferredNoInstall ==
    /\ watchPc = "deferred"
    /\ condL = "free"
    /\ watchPc' = "done"
    /\ UNCHANGED <<curHealth, condL, ctorPc, watchRes, resultCh, wsPc, pQuit,
                   readPc, readAt, readView>>
    /\ AggFrame

\* the deferred calls of beginWatch: under the lock, an empty map and a
\* broadcast if p.curHealth is nil; then watchServiceCancel()
WatchDeferred ==
    /\ watchPc = "deferred"
    /\ condL = "free"
    /\ IF curHealth = "nil"
       THEN curHealth' = "empty" /\ Broadcast
       ELSE UNCHANGED <<curHealth, ctorPc>>
    /\ watchPc' = "done"
    /\ UNCHANGED <<condL, watchRes, resultCh, wsPc, pQuit, readPc, readAt,
                   readView>>
    /\ AggFrame

\* p.checker.WatchService returns, of itself or because its context was
\* cancelled, and closes resultCh
WatcherExit ==
    /\ wsPc = "running"
    /\ wsPc' = "exited"
    /\ resultCh' = "closed"
    /\ UNCHANGED <<curHealth, condL, ctorPc, watchPc, watchRes, pQuit, readPc,
                   readAt, readView>>
    /\ AggFrame

\* Stop(): close(p.quit), by the caller that got p from AggregateHealth
AggStop ==
    /\ ctorPc = "returned"
    /\ pQuit = "open"
    /\ pQuit' = "closed"
    /\ UNCHANGED <<curHealth, condL, ctorPc, watchPc, watchRes, resultCh,
                   wsPc, readPc, readAt, readView>>
    /\ AggFrame

\* a reader that does not take p.cond.L
ReadLockNoMutex ==
    /\ ctorPc = "returned"
    /\ readPc = "idle"
    /\ readPc' = "reading"
    /\ readAt' = curHealth
    /\ readView' = <<>>
    /\ UNCHANGED <<curHealth, condL, ctorPc, watchPc, watchRes, resultCh,
                   wsPc, pQuit>>
    /\ AggFrame

\* numOfHealth(status, hosts) or GetHealth(host): p.cond.L.Lock()
ReadLock ==
    /\ ctorPc = "returned"
    /\ readPc = "idle"
    /\ condL = "free"
    /\ condL' = "reader"
    /\ readPc' = "reading"
    /\ readAt' = curHealth
    /\ readView' = <<>>
    /\ UNCHANGED <<curHealth, ctorPc, watchPc, watchRes, resultCh, wsPc,
                   pQuit>>
    /\ AggFrame

\* h, ok := p.curHealth[host], for the next host of hosts
ReadHost ==
    /\ readPc = "reading"
    /\ Len(readView) < NumNodes
    /\ readView' = Append(readView, MapEntry(curHealth, Len(readView) + 1))
    /\ UNCHANGED <<curHealth, condL, ctorPc, watchPc, watchRes, resultCh,
                   wsPc, pQuit, readPc, readAt>>
    /\ AggFrame

\* the deferred p.cond.L.Unlock() and the return
ReadUnlock ==
    /\ readPc = "reading"
    /\ Len(readView) = NumNodes
    /\ condL' = "free"
    /\ readPc' = "idle"
    /\ UNCHANGED <<curHealth, ctorPc, watchPc, watchRes, resultCh, wsPc,
                   pQuit, readAt, readView>>
    /\ AggFrame

\* the steps of the constructor and of a reader that holds the lock
CtorStep == CtorLock \/ CtorCheck
ReadStep == ReadHost \/ ReadUnlock

NextAggregator ==
    \/ AggregateHealth
    \/ CtorLock
    \/ CtorCheck
    \/ \E m \in Snapshots : WatchRecv(m)
    \/ WatchStore
    \/ WatchReturn
    \/ WatchDeferred
    \/ WatcherExit
    \/ AggStop
    \/ ReadLock
    \/ ReadHost
    \/ ReadUnlock

\* ------------------------------------------------------- status endpoints
\* A URL is a sequence of tokens: the scheme, "://", the characters of the
\* host, ":", the port, and the path with "/" as a token of its own.
\* the characters of a node name: a letter and the delimiters of a URL
Chars == {"a", "/", "?", "#", "@", ":"}

\* the non-empty node names
NodeNames == UNION {[1..k -> Chars] : k \in 1..MaxNameLen}

\* manifest.StatusStanza: HTTP, Path ("", "path" or "/path") and Port
Stanzas ==
    [http : BOOLEAN, path : {<<>>, <<"path">>, <<"/", "path">>}, port : {"0", "1"}]

\* the index of the first c in s, 0 if there is none
FirstIndex(s, c) ==
    IF \E i \in DOMAIN s : s[i] = c
    THEN CHOOSE i \in DOMAIN s : s[i] = c /\ \A j \in 1..(i - 1) : s[j] # c
    ELSE 0

\* the index of the last c in s, 0 if there is none
LastIndex(s, c) ==
    IF \E i \in DOMAIN s : s[i] = c
    THEN CHOOSE i \in DOMAIN s : s[i] = c /\ \A j \in (i + 1)..Len(s) : s[j] # c
    ELSE 0

\* the path of the endpoint: /_status by default, and with a leading slash
EndpointPath(st) ==
    IF st.path = <<>> THEN <<"/", "_status">>
    ELSE IF Head(st.path) = "/" THEN st.path
    ELSE <<"/">> \o st.path

\* an endpoint with the scheme https whatever the stanza says
nodeIDToHttpsEndpoint(n, st) ==
    <<"https", "://">> \o n \o <<":", st.port>> \o EndpointPath(st)

\* nodeIDToStatusEndpoint: <scheme>://<node>:<port><path>
nodeIDToStatusEndpoint(n, st) ==
    <<IF st.http THEN "http" ELSE "https", "://">> \o n \o <<":", st.port>>
        \o EndpointPath(st)

\* nodeIDsToStatusEndpoints: one endpoint per node, in the order of nodeIDs
nodeIDsToStatusEndpoints(ns, st) ==
    [i \in 1..Len(ns) |-> nodeIDToStatusEndpoint(ns[i], st)]

\* the authority of a URL: what follows "://" up to the first of / ? #
Authority(url) ==
    LET rest == SubSeq(url, 3, Len(url))
        ends == {i \in DOMAIN rest : rest[i] \in {"/", "?", "#"}}
    IN  IF ends = {} THEN rest
        ELSE SubSeq(rest, 1, (CHOOSE i \in ends : \A j \in ends : i <= j) - 1)

\* statusURLToNodeName: parse the URL and return its host, which is the
\* authority without the user information and without the port
statusURLToNodeName(url) ==
    LET auth     == Authority(url)
        hostport == SubSeq(auth, LastIndex(auth, "@") + 1, Len(auth))
    IN  IF FirstIndex(hostport, ":") = 0 THEN hostport
        ELSE SubSeq(hostport, 1, FirstIndex(hostport, ":") - 1)

\* nodeIDsToStatusEndpoints(nodeIDs, statusStanza), and statusURLToNodeName
\* on each endpoint it returned
BuildEndpoints ==
    /\ epOut.res = "none"
    /\ epNodes # <<>>
    /\ LET urls == nodeIDsToStatusEndpoints(epNodes, epStanza)
       IN  epOut' = [res |-> "built", urls |-> urls,
                     names |-> [i \in DOMAIN urls |-> statusURLToNodeName(urls[i])]]
    /\ UNCHANGED <<runVars, lockVars, ulog, rcLabel, cfm, ordNodes, ordStatus, ordOut,
                   aggVars, epNodes, epStanza, ckNodes, ckProbe, ckPort, ckOut,
                   qr>>

\* ---------------------------------------------------------- health checker
\* what the probe of a node's status endpoint gives: a health state, or no
\* response
ProbeResults == HealthStates \cup {"noResponse"}

\* the node lists serviceNodes may return with the probe result of each
\* node: a pair of functions that agree on which nodes are absent
ServiceInputs ==
    {in \in [members : [Nodes -> {"member", "absent"}],
             probe : [Nodes -> ProbeResults \cup {"absent"}]] :
        \A n \in Nodes : in.members[n] = "absent" <=> in.probe[n] = "absent"}

\* the non-zero ports of a status stanza
ProbedPorts == {1, 2}

\* the status reported for a probe result
Reported(p) == IF p = "noResponse" THEN "unknown" ELSE p

\* a snapshot without the nodes that gave no response
ServiceMapOfResponses(members, probe) ==
    [n \in Nodes |-> IF probe[n] = "noResponse" THEN "absent" ELSE probe[n]]

\* the map of one batch of probes: an entry for every node of the service
ServiceMap(members, probe) ==
    [n \in Nodes |-> IF members[n] = "absent" THEN "absent"
                     ELSE Reported(probe[n])]

\* what no call of the health checker changes
CheckerFrame ==
    UNCHANGED <<runVars, lockVars, ulog, rcLabel, cfm, ordNodes, ordStatus, ordOut,
                aggVars, epNodes, epStanza, epOut, qr>>

\* Service(serviceID, statusStanza): serviceNodes, one batch of probes, and
\* the map is returned
Service ==
    /\ \E in \in ServiceInputs, port \in ProbedPorts :
          /\ ckNodes' = in.members
          /\ ckProbe' = in.probe
          /\ ckPort' = port
          /\ ckOut' = [op |-> "service", map |-> ServiceMap(in.members, in.probe)]
    /\ CheckerFrame

\* one iteration of WatchService: serviceNodes, one batch of probes, and
\* the map is sent on resultCh
WatchServiceEmit ==
    /\ \E in \in ServiceInputs, port \in ProbedPorts :
          /\ ckNodes' = in.members
          /\ ckProbe' = in.probe
          /\ ckPort' = port
          /\ ckOut' = [op |-> "watch", map |-> ServiceMap(in.members, in.probe)]
    /\ CheckerFrame

\* a WatchPodOnNode that reports the probe whatever the port
PodHealthOfProbe(port, p) == Reported(p)

\* the health WatchPodOnNode reports: Passing for port 0, else the probe's
PodHealth(port, p) == IF port = 0 THEN "passing" ELSE Reported(p)

\* WatchPodOnNode(ctx, nodeID, podID, statusStanza) sends a result
WatchPodOnNode(n) ==
    /\ \E p \in ProbeResults, port \in {0} \cup ProbedPorts :
          /\ ckNodes' = [m \in Nodes |-> IF m = n THEN "member" ELSE "absent"]
          /\ ckProbe' = [m \in Nodes |-> IF m = n THEN p ELSE "absent"]
          /\ ckPort' = port
          /\ ckOut' = [op |-> "pod",
                       map |-> [m \in Nodes |-> IF m = n THEN PodHealth(port, p)
                                                ELSE "absent"]]
    /\ CheckerFrame

NextChecker ==
    \/ Service
    \/ WatchServiceEmit
    \/ \E n \in Nodes : WatchPodOnNode(n)

\* ------------------------------------------- queryReality and the clock
\* time in units of 5 s: the timer of `case <-time.After(5 * time.Second)`
LogAfter == 1
\* and the timer of `case <-time.After(1 * time.Minute)`
TimeoutAfter == 12

\* the calls of queryReality that wait in the select
QrWaiting == {n \in Nodes : qr[n].pc = "select"}

\* what no step of queryReality changes
QrFrame ==
    UNCHANGED <<active, nodes, completedCount, manifest, timeout, threshold,
                podLabels, rateLimiter, timedOutReplications, nodeQueue,
                chans, procs, stores, setManifestCalls, cancelCalls, panicked,
                inputs, lockVars, rcLabel, cfm, ordNodes, ordStatus, ordOut,
                aggVars, ckVars, ulog>>

\* queryReality(node) is called and reaches its select, with two new timers
QueryReality(n) ==
    /\ qr[n].pc = "idle"
    /\ qr' = [qr EXCEPT ![n].pc = "select"]
    /\ UNCHANGED concurrentRealityRequests
    /\ QrFrame

\* case r.concurrentRealityRequests <- struct{}{}
QrAcquire(n) ==
    /\ qr[n].pc = "select"
    /\ concurrentRealityRequests < RealityCap
    /\ concurrentRealityRequests' = concurrentRealityRequests + 1
    /\ qr' = [qr EXCEPT ![n].pc = "reading"]
    /\ QrFrame

\* r.store.Pod returns, the slot is given back, queryReality returns
QrRead(n) ==
    /\ qr[n].pc = "reading"
    /\ concurrentRealityRequests' = concurrentRealityRequests - 1
    /\ \E res \in {"man", "err"} :
          qr' = [qr EXCEPT ![n].pc = "returned", ![n].out = res]
    /\ QrFrame

\* case <-time.After(5 * time.Second): the message is logged and the loop
\* goes round: the next select starts two new timers
QrLog(n) ==
    /\ qr[n].pc = "select"
    /\ qr[n].since >= LogAfter
    /\ qr' = [qr EXCEPT ![n].since = 0]
    /\ UNCHANGED concurrentRealityRequests
    /\ QrFrame

\* case <-time.After(1 * time.Minute): the error is returned
QrTimeout(n) ==
    /\ qr[n].pc = "select"
    /\ qr[n].since >= TimeoutAfter
    /\ qr' = [qr EXCEPT ![n].pc = "returned", ![n].out = "timedOut"]
    /\ UNCHANGED concurrentRealityRequests
    /\ QrFrame

\* 5 s pass for the calls that wait. A select that finds a free slot takes
\* it or a ready timer at once, so time passes only while the semaphore is
\* full; a goroutine may be late for its 5 s timer, but time does not pass
\* beyond a 1 minute timer before its select has run
QrTick ==
    /\ QrWaiting # {}
    /\ concurrentRealityRequests = RealityCap
    /\ \A n \in QrWaiting : qr[n].since < TimeoutAfter /\ qr[n].waited < MaxWaited
    /\ qr' = [n \in Nodes |->
                IF n \in QrWaiting
                THEN [qr[n] EXCEPT !.since = @ + 1, !.waited = @ + 1]
                ELSE qr[n]]
    /\ UNCHANGED concurrentRealityRequests
    /\ QrFrame

NextReality ==
    \/ \E n \in Nodes : QueryReality(n)
    \/ \E n \in Nodes : QrAcquire(n)
    \/ \E n \in Nodes : QrRead(n)
    \/ \E n \in Nodes : QrLog(n)
    \/ \E n \in Nodes : QrTimeout(n)
    \/ QrTick

\* -------------------------------------------------------- checkForManaged
\* the loop of checkForManaged from the i-th node of r.nodes on, with the
\* badNodes found so far: an error of GetLabels is returned at once, a node
\* whose pod labels have rc.RCIDLabel is appended to badNodes; after the
\* loop, the error that joins badNodes if there are any, else nil
RECURSIVE CheckFrom(_, _)

\* a check that looks at the labels of the first node only
CheckFirstNodeOnly(i, bad) ==
    IF rcLabel[nodes[1]] = "managed"
    THEN [res |-> "managed", bad |-> <<nodes[1]>>]
    ELSE [res |-> "nil", bad |-> <<>>]

CheckFrom(i, bad) ==
    IF i > Len(nodes)
    THEN IF Len(bad) > 0
         THEN [res |-> "managed", bad |-> bad]
         ELSE [res |-> "nil", bad |-> <<>>]
    ELSE IF rcLabel[nodes[i]] = "err"
    THEN [res |-> "labelErr", bad |-> <<>>]
    ELSE CheckFrom(i + 1, IF rcLabel[nodes[i]] = "managed"
                          THEN Append(bad, nodes[i]) ELSE bad)

\* checkForManaged(), called before Enact()
CheckForManaged ==
    /\ Running
    /\ cfm.res = "notCalled"
    /\ enactPc = "notStarted"
    /\ cfm' = CheckFrom(1, <<>>)
    /\ UNCHANGED <<runVars, lockVars, ulog, rcLabel, ordNodes, ordStatus, ordOut,
                   aggVars, ckVars, qr>>

\* ----------------------------------------------------------------- Enact
\* Enact(): r.enactedCh = make(chan struct{})
EnactStart ==
    /\ Running
    /\ enactPc = "notStarted"
    /\ enactedCh' = "open"
    /\ enactPc' = "health"
    /\ UNCHANGED <<replFields, replicationCancelledCh, replicationDoneCh,
                   quitCh, errCh, feederPc, nodeChan, fed, wpc, wnode, upc,
                   uman, ctx, hpc, session, waitPc, stores, env>>

\* r.health.Service() fails: Enact goes to the select that offers the error
EnactHealthFail ==
    /\ Running
    /\ enactPc = "health"
    /\ enactPc' = "errSend"
    /\ UNCHANGED <<replFields, chans, feederPc, nodeChan, fed, wpc, wnode,
                   upc, uman, ctx, hpc, session, waitPc, stores, env>>

\* select { case r.errCh <- err: case <-r.quitCh: }; a send on a closed
\* channel is a ready case of the select and panics when it is chosen
EnactErrSend ==
    /\ Running
    /\ enactPc = "errSend"
    /\ \/ /\ errCh = "open"
          /\ errReader = "reading"
          /\ errLog' = Append(errLog, "fatal")
          /\ enactPc' = "closeEnacted"
          /\ UNCHANGED panicked
       \/ /\ errCh = "closed"
          /\ panicked' = TRUE
          /\ enactPc' = "panicked"
          /\ UNCHANGED errLog
       \/ /\ quitCh = "closed"
          /\ enactPc' = "closeEnacted"
          /\ UNCHANGED <<errLog, panicked>>
    /\ UNCHANGED <<replFields, chans, feederPc, nodeChan, fed, wpc, wnode,
                   upc, uman, ctx, hpc, session, waitPc, reality, intent,
                   issued, scheduled, setManifestCalls, cancelCalls, lockVars, inputs, funVars>>

\* an Enact() that leaves r.nodes in the caller's order
EnactHealthOkUnsorted ==
    /\ Running
    /\ enactPc = "health"
    /\ IF nodeQueue = "nil"
       THEN /\ nodeChan' = "open"
            /\ feederPc' = IF rateLimiter # "nil" THEN "tick" ELSE "send"
       ELSE UNCHANGED <<nodeChan, feederPc>>
    /\ enactPc' = "aggregate"
    /\ UNCHANGED <<replFields, chans, fed, wpc, wnode, upc, uman, ctx, hpc,
                   session, waitPc, stores, env>>

\* r.health.Service() succeeds: sort r.nodes, and with a nil nodeQueue make
\* nodeChan and start the feeder; then AggregateHealth() is called
EnactHealthOk ==
    /\ Running
    /\ enactPc = "health"
    /\ nodes' = SortNodes(nodes, serviceHealth)
    /\ IF nodeQueue = "nil"
       THEN /\ nodeChan' = "open"
            /\ feederPc' = IF rateLimiter # "nil" THEN "tick" ELSE "send"
       ELSE UNCHANGED <<nodeChan, feederPc>>
    /\ enactPc' = "aggregate"
    /\ UNCHANGED <<active, completedCount, manifest, timeout, threshold,
                   podLabels, rateLimiter, timedOutReplications,
                   concurrentRealityRequests, nodeQueue, chans, fed, wpc,
                   wnode, upc, uman, ctx, hpc, session, waitPc, stores, env>>

\* AggregateHealth() has returned: start r.active workers, updatePool.Wait()
EnactSpawn ==
    /\ Running
    /\ enactPc = "aggregate"
    /\ wpc' = [w \in Workers |-> IF w <= active THEN "recv" ELSE wpc[w]]
    /\ enactPc' = "wait"
    /\ UNCHANGED <<replFields, chans, feederPc, nodeChan, fed, wnode, upc,
                   uman, ctx, hpc, session, waitPc, stores, env>>

\* an Enact whose deferred calls do not wait for the worker pool
PoolDoneNoWait == TRUE

PoolDone == \A w \in Workers : w <= active => wpc[w] = "done"

\* updatePool.Wait() returns; the deferred calls run last-in first-out:
\* aggregateHealth.Stop(), then close(r.enactedCh) ...
EnactWait ==
    /\ Running
    /\ enactPc = "wait"
    /\ PoolDone
    /\ enactPc' = "closeEnacted"
    /\ UNCHANGED <<replFields, chans, feederPc, nodeChan, fed, wpc, wnode,
                   upc, uman, ctx, hpc, session, waitPc, stores, env>>

EnactCloseEnacted ==
    /\ Running
    /\ enactPc = "closeEnacted"
    /\ enactedCh' = "closed"
    /\ enactPc' = "closeDone"
    /\ UNCHANGED <<replFields, replicationCancelledCh, replicationDoneCh,
                   quitCh, errCh, feederPc, nodeChan, fed, wpc, wnode, upc,
                   uman, ctx, hpc, session, waitPc, stores, env>>

\* ... then close(r.replicationDoneCh), and Enact() returns
EnactCloseDone ==
    /\ Running
    /\ enactPc = "closeDone"
    /\ replicationDoneCh' = "closed"
    /\ enactPc' = "returned"
    /\ UNCHANGED <<replFields, replicationCancelledCh, quitCh, enactedCh,
                   errCh, feederPc, nodeChan, fed, wpc, wnode, upc, uman,
                   ctx, hpc, session, waitPc, stores, env>>

\* ---------------------------------------------------------------- feeder
\* a feeder that returns after the first node it has sent
FeederAfterOneNode(k) == "done"

\* the position of the feeder after it has sent the k-th node: the loop
\* ends after the last node and the deferred close(nodeChan) runs
FeederAfter(k) ==
    IF k = Len(nodes) THEN "done"
    ELSE IF rateLimiter # "nil" THEN "tick" ELSE "send"

\* case <-r.rateLimiter.C
FeederTick ==
    /\ Running
    /\ feederPc = "tick"
    /\ rateLimiter = "ticking"
    /\ feederPc' = "send"
    /\ UNCHANGED <<replFields, chans, enactPc, nodeChan, fed, wpc, wnode,
                   upc, uman, ctx, hpc, session, waitPc, stores, env>>

\* case <-r.replicationCancelledCh / case <-r.quitCh: return, and the
\* deferred close(nodeChan)
FeederStop ==
    /\ Running
    /\ feederPc \in {"tick", "send"}
    /\ replicationCancelledCh = "closed" \/ quitCh = "closed"
    /\ feederPc' = "done"
    /\ nodeChan' = "closed"
    /\ UNCHANGED <<replFields, chans, enactPc, fed, wpc, wnode, upc, uman,
                   ctx, hpc, session, waitPc, stores, env>>

\* --------------------------------------------------------------- workers
\* a worker that gives every node's context a deadline
StartUpdateWithDeadline(w, n) ==
    /\ wpc' = [wpc EXCEPT ![w] = "select"]
    /\ wnode' = [wnode EXCEPT ![w] = n]
    /\ ctx' = [ctx EXCEPT ![n] = "deadline"]
    /\ uman' = [uman EXCEPT ![n] = manifest]
    /\ upc' = [upc EXCEPT ![n] = "semS"]

\* a worker whose updater takes the manifest the replication was built with
StartUpdateOfFirstManifest(w, n) ==
    /\ wpc' = [wpc EXCEPT ![w] = "select"]
    /\ wnode' = [wnode EXCEPT ![w] = n]
    /\ ctx' = [ctx EXCEPT ![n] = IF timeout # NoTimeout THEN "deadline" ELSE "live"]
    /\ uman' = [uman EXCEPT ![n] = "M1"]
    /\ upc' = [upc EXCEPT ![n] = "semS"]

\* what a worker does with a node it has read from the queue: a context
\* (with a deadline if r.timeout != NoTimeout), the updater goroutine, which
\* starts updateOne by reading the manifest, and the select on ctx.Done()
StartUpdate(w, n) ==
    /\ wpc' = [wpc EXCEPT ![w] = "select"]
    /\ wnode' = [wnode EXCEPT ![w] = n]
    /\ ctx' = [ctx EXCEPT ![n] = IF timeout # NoTimeout THEN "deadline" ELSE "live"]
    /\ uman' = [uman EXCEPT ![n] = manifest]
    /\ upc' = [upc EXCEPT ![n] = "semS"]

\* case nodeChan <- node in the feeder meets `for node := range nodeQueue`
WorkerRecv(w) ==
    /\ Running
    /\ wpc[w] = "recv"
    /\ nodeQueue = "nil"
    /\ feederPc = "send"
    /\ StartUpdate(w, nodes[fed + 1])
    /\ fed' = fed + 1
    /\ feederPc' = FeederAfter(fed + 1)
    /\ nodeChan' = IF FeederAfter(fed + 1) = "done" THEN "closed" ELSE nodeChan
    /\ UNCHANGED <<replFields, chans, enactPc, hpc, session, waitPc, stores, env>>

\* the caller sends the next node on the queue it supplied
QueueSend(w) ==
    /\ Running
    /\ wpc[w] = "recv"
    /\ nodeQueue = "open"
    /\ fed < NumNodes
    /\ StartUpdate(w, fed + 1)
    /\ fed' = fed + 1
    /\ UNCHANGED <<replFields, chans, enactPc, feederPc, nodeChan, hpc,
                   session, waitPc, stores, env>>

\* the caller closes the queue it supplied
QueueClose ==
    /\ Running
    /\ nodeQueue = "open"
    /\ nodeQueue' = "closed"
    /\ UNCHANGED <<active, nodes, completedCount, manifest, timeout,
                   threshold, podLabels, rateLimiter, timedOutReplications,
                   concurrentRealityRequests, chans, procs, stores, env>>

\* the range over the queue ends: the queue is closed
WorkerQueueClosed(w) ==
    /\ Running
    /\ wpc[w] = "recv"
    /\ PoolQueue = "closed"
    /\ wpc' = [wpc EXCEPT ![w] = "done"]
    /\ UNCHANGED <<replFields, chans, enactPc, feederPc, nodeChan, fed,
                   wnode, upc, uman, ctx, hpc, session, waitPc, stores, env>>

\* select { case <-ctx.Done(): ...}: on to the next node
WorkerCtxDone(w) ==
    /\ Running
    /\ wpc[w] = "select"
    /\ ctx[wnode[w]] = "done"
    /\ wpc' = [wpc EXCEPT ![w] = "recv"]
    /\ UNCHANGED <<replFields, chans, enactPc, feederPc, nodeChan, fed,
                   wnode, upc, uman, ctx, hpc, session, waitPc, stores, env>>

\* select { ... case <-r.quitCh: return }
WorkerQuit(w) ==
    /\ Running
    /\ wpc[w] = "select"
    /\ quitCh = "closed"
    /\ wpc' = [wpc EXCEPT ![w] = "done"]
    /\ UNCHANGED <<replFields, chans, enactPc, feederPc, nodeChan, fed,
                   wnode, upc, uman, ctx, hpc, session, waitPc, stores, env>>

\* the deadline of node n's context passes
Timeout(n) ==
    /\ Running
    /\ ctx[n] = "deadline"
    /\ ctx' = [ctx EXCEPT ![n] = "done"]
    /\ UNCHANGED <<replFields, chans, enactPc, feederPc, nodeChan, fed, wpc,
                   wnode, upc, uman, hpc, session, waitPc, stores, env>>

\* ------------------------------------------------------- per-node updater
\* a health.Compare for which a node missing from the aggregator is healthy
HealthRankMissingPasses(st) ==
    CASE st = "unknown"  -> 0
      [] st = "critical" -> 1
      [] st = "missing"  -> 3
      [] st = "warning"  -> 2
      [] st = "passing"  -> 3

\* health.Compare over unknown < critical < warning < passing; a node
\* missing from the aggregator gives the zero Result, treated as critical
HealthRank(st) ==
    CASE st = "unknown"  -> 0
      [] st = "critical" -> 1
      [] st = "missing"  -> 1
      [] st = "warning"  -> 2
      [] st = "passing"  -> 3

\* ensureHealthy: an empty threshold means passing
EffectiveThreshold == IF threshold # "" THEN threshold ELSE "passing"

\* an updateOne that registers the deferred AddInt32 before it decides
\* whether to schedule the node
UReturnAlwaysCounts(n, counted, err) ==
    /\ upc' = [upc EXCEPT ![n] = "returned"]
    /\ ctx' = [ctx EXCEPT ![n] = "done"]
    /\ uman' = [uman EXCEPT ![n] = "none"]
    /\ completedCount' = completedCount + 1
    /\ timedOutReplications' =
          IF err = "errTimeout" THEN Append(timedOutReplications, n)
          ELSE timedOutReplications

\* updateOne returns err for node n: the deferred AddInt32 runs if it was
\* registered (counted); then the goroutine of Enact records a timeout and
\* its deferred close(exitCh) and cancel() run
UReturn(n, counted, err) ==
    /\ upc' = [upc EXCEPT ![n] = "returned"]
    /\ ctx' = [ctx EXCEPT ![n] = "done"]
    /\ uman' = [uman EXCEPT ![n] = "none"]
    /\ completedCount' = IF counted THEN completedCount + 1 ELSE completedCount
    /\ timedOutReplications' =
          IF err = "errTimeout" THEN Append(timedOutReplications, n)
          ELSE timedOutReplications

\* updateOne of node n goes on to position p
UGoto(n, p) ==
    /\ upc' = [upc EXCEPT ![n] = p]
    /\ UNCHANGED <<ctx, uman, completedCount, timedOutReplications>>

\* what no step of an updater changes
UFrame ==
    UNCHANGED <<active, nodes, manifest, timeout, threshold, podLabels,
                rateLimiter, nodeQueue, chans, enactPc, feederPc, nodeChan,
                fed, wpc, wnode, hpc, session, waitPc, reality, errLog,
                setManifestCalls, cancelCalls, panicked, lockVars, inputs,
                rcLabel, cfm, ordNodes, ordStatus, ordOut, aggVars, ckVars, qr>>

\* an entry of the log of updateOne: k is "commit", "read" (v: what the
\* read of reality gave: "err", "none" for NoCurrentManifest, or a hash),
\* "health" (v: the status the aggregator gave) or "ret" (v: the value
\* returned); of the reads in a loop the last one is kept
Push(log, k, v) ==
    IF log # <<>> /\ log[Len(log)].k = k
    THEN [log EXCEPT ![Len(log)] = [k |-> k, v |-> v]]
    ELSE Append(log, [k |-> k, v |-> v])

\* updateOne of node n logs an entry
ULog(n, k, v) ==
    ulog' = IF ulog.on THEN [ulog EXCEPT !.of[n] = Push(@, k, v)] ELSE ulog

\* updateOne of node n logs the result of a step and the error it returns
ULogRet(n, k, v, err) ==
    ulog' = IF ulog.on
            THEN [ulog EXCEPT !.of[n] = Push(Push(@, k, v), "ret", err)]
            ELSE ulog

\* a queryReality that starts its read without a slot of the semaphore
UAcquireNoSlot(n) ==
    /\ Running
    /\ upc[n] = "semS"
    /\ concurrentRealityRequests' = concurrentRealityRequests + 1
    /\ UGoto(n, "podS")
    /\ UNCHANGED <<intent, issued, scheduled, ulog>>
    /\ UFrame

\* shouldScheduleForNode, in queryReality:
\* case r.concurrentRealityRequests <- struct{}{}
UAcquire(n) ==
    /\ Running
    /\ upc[n] = "semS"
    /\ concurrentRealityRequests < RealityCap
    /\ concurrentRealityRequests' = concurrentRealityRequests + 1
    /\ UGoto(n, "podS")
    /\ UNCHANGED <<intent, issued, scheduled, ulog>>
    /\ UFrame

\* results of r.store.Pod(REALITY_TREE, node, id) for node n: an error, or
\* the hash of what the node ran before the replication ("none": the
\* NoCurrentManifest error), or the hash of its intent once its agent has
\* installed it
PodResults(n) ==
    (IF readFails THEN {"err"} ELSE {}) \cup {reality[n]}
        \cup (IF intent[n] # "none" THEN {SHA(intent[n])} ELSE {})

\* a shouldScheduleForNode that does not compare the hashes
shouldScheduleAlways(res) == TRUE

\* shouldScheduleForNode: false iff the read gave a manifest whose hash
\* equals r.GetManifest().SHA()
shouldScheduleForNode(res) ==
    ~(res \notin {"err", "none"} /\ res = SHA(manifest))

\* shouldScheduleForNode: the read of reality returns and the slot is
\* released; updateOne returns nil if the node is not to be scheduled
UShouldSchedule(n) ==
    /\ Running
    /\ upc[n] = "podS"
    /\ concurrentRealityRequests' = concurrentRealityRequests - 1
    /\ \E res \in PodResults(n) :
          IF shouldScheduleForNode(res)
          THEN UGoto(n, "write") /\ scheduled' = scheduled \cup {n}
               /\ UNCHANGED ulog
          ELSE UReturn(n, FALSE, "nil") /\ UNCHANGED scheduled
               /\ ULog(n, "ret", "nil")
    /\ UNCHANGED <<intent, issued>>
    /\ UFrame

\* updateOne from `defer atomic.AddInt32(&r.completedCount, 1)` to the
\* return of CommitWithRetries: SetPodTxn and SetLabelsTxn add to the
\* transaction of ctx and either may fail; CommitWithRetries sends the
\* transaction to the store, where it commits, or conflicts, or the context
\* ends first
UWrite(n) ==
    /\ Running
    /\ upc[n] = "write"
    /\ \/ /\ writeFails
          /\ UReturn(n, TRUE, "buildError")
          /\ ULog(n, "ret", "buildError")
          /\ UNCHANGED <<intent, issued>>
       \/ /\ writeFails /\ podLabels
          /\ UReturn(n, TRUE, "labelError")
          /\ ULog(n, "ret", "labelError")
          /\ UNCHANGED <<intent, issued>>
       \/ /\ issued' = issued \cup {n}
          /\ intent' = [intent EXCEPT ![n] = uman[n]]
          /\ UGoto(n, "inReality")
          /\ ULog(n, "commit", "ok")
       \/ /\ writeFails
          /\ issued' = issued \cup {n}
          /\ UReturn(n, TRUE, "conflict")
          /\ ULogRet(n, "commit", "conflict", "conflict")
          /\ UNCHANGED intent
       \/ /\ ctx[n] = "done"
          /\ issued' = issued \cup {n}
          /\ UReturn(n, TRUE, "errTimeout")
          /\ ULogRet(n, "commit", "ctxDone", "errTimeout")
          /\ UNCHANGED intent
    /\ UNCHANGED <<concurrentRealityRequests, scheduled>>
    /\ UFrame

\* the select of ensureInReality and of ensureHealthy: the three ways out
UWaitExit(n) ==
    \/ quitCh = "closed" /\ UReturn(n, TRUE, "errQuit")
          /\ ULog(n, "ret", "errQuit")
    \/ ctx[n] = "done" /\ UReturn(n, TRUE, "errTimeout")
          /\ ULog(n, "ret", "errTimeout")
    \/ replicationCancelledCh = "closed" /\ UReturn(n, TRUE, "errCancelled")
          /\ ULog(n, "ret", "errCancelled")

\* ensureInReality: quit, context or cancellation end the wait; after the
\* poll timer queryReality takes a slot of the semaphore
UInReality(n) ==
    /\ Running
    /\ upc[n] = "inReality"
    /\ \/ /\ UWaitExit(n)
          /\ UNCHANGED concurrentRealityRequests
       \/ /\ concurrentRealityRequests < RealityCap
          /\ concurrentRealityRequests' = concurrentRealityRequests + 1
          /\ UGoto(n, "podR")
          /\ UNCHANGED ulog
    /\ UNCHANGED <<intent, issued, scheduled>>
    /\ UFrame

\* an ensureInReality that takes the hash of r.GetManifest() at each poll
currentSHA(n) == SHA(manifest)

\* targetSHA, the hash of the manifest updateOne read when it started,
\* which it hands to ensureInReality
targetSHA(n) == SHA(uman[n])

\* ensureInReality: the read of reality returns and the slot is released;
\* the wait ends when the hash read equals targetSHA, the hash of the
\* manifest updateOne read when it started
URealityRead(n) ==
    /\ Running
    /\ upc[n] = "podR"
    /\ concurrentRealityRequests' = concurrentRealityRequests - 1
    /\ \E res \in PodResults(n) :
          IF res \notin {"err", "none"} /\ res = targetSHA(n)
          THEN UGoto(n, "healthy") /\ ULog(n, "read", res)
          ELSE UGoto(n, "inReality") /\ ULog(n, "read", res)
    /\ UNCHANGED <<intent, issued, scheduled>>
    /\ UFrame

\* an ensureHealthy that takes any status for healthy
MeetsAlways(st) == TRUE

\* ensureHealthy: health.Compare(status, threshold) < 0 is false
MeetsThreshold(st) == HealthRank(st) >= HealthRank(EffectiveThreshold)

\* ensureHealthy: quit, context or cancellation end the wait; the poll
\* timer reads the aggregator and compares with the threshold
UHealthy(n) ==
    /\ Running
    /\ upc[n] = "healthy"
    /\ \/ UWaitExit(n)
       \/ \E st \in HealthStates \cup {"missing"} :
             IF MeetsThreshold(st)
             THEN UReturn(n, TRUE, "nil") /\ ULogRet(n, "health", st, "nil")
             ELSE UGoto(n, "healthy") /\ ULog(n, "health", st)
    /\ UNCHANGED <<concurrentRealityRequests, intent, issued, scheduled>>
    /\ UFrame

\* -------------------------------------------------- handleReplicationEnd
\* select { case <-r.replicationDoneCh: ... }: on to the deferred tear-down
HandlerDone ==
    /\ Running
    /\ hpc = "select"
    /\ replicationDoneCh = "closed"
    /\ hpc' = "closeQuit"
    /\ UNCHANGED <<replFields, chans, enactPc, feederPc, nodeChan, fed, wpc,
                   wnode, upc, uman, ctx, session, waitPc, stores, env>>

\* case <-r.replicationCancelledCh: wait for r.enactedCh if it is not nil
HandlerCancelled ==
    /\ Running
    /\ hpc = "select"
    /\ replicationCancelledCh = "closed"
    /\ hpc' = IF enactedCh # "nil" THEN "waitEnacted" ELSE "closeQuit"
    /\ UNCHANGED <<replFields, chans, enactPc, feederPc, nodeChan, fed, wpc,
                   wnode, upc, uman, ctx, session, waitPc, stores, env>>

\* <-r.enactedCh
HandlerEnacted ==
    /\ Running
    /\ hpc = "waitEnacted"
    /\ enactedCh = "closed"
    /\ hpc' = "closeQuit"
    /\ UNCHANGED <<replFields, chans, enactPc, feederPc, nodeChan, fed, wpc,
                   wnode, upc, uman, ctx, session, waitPc, stores, env>>

\* case err := <-renewalErrCh: the session could not be renewed
HandlerRenewalErr ==
    /\ Running
    /\ hpc = "select"
    /\ hpc' = "errSend"
    /\ UNCHANGED <<replFields, chans, enactPc, feederPc, nodeChan, fed, wpc,
                   wnode, upc, uman, ctx, session, waitPc, stores, env>>

\* r.errCh <- replicationError{err, isFatal: true}, received by the caller
HandlerErrSend ==
    /\ Running
    /\ hpc = "errSend"
    /\ errReader = "reading"
    /\ errLog' = Append(errLog, "fatal")
    /\ hpc' = "closeQuit"
    /\ UNCHANGED <<replFields, chans, enactPc, feederPc, nodeChan, fed, wpc,
                   wnode, upc, uman, ctx, session, waitPc, reality, intent,
                   issued, scheduled, env>>

\* the deferred function: close(r.quitCh) ...
HandlerCloseQuit ==
    /\ Running
    /\ hpc = "closeQuit"
    /\ quitCh' = "closed"
    /\ hpc' = "closeErr"
    /\ UNCHANGED <<replFields, replicationCancelledCh, replicationDoneCh,
                   enactedCh, errCh, enactPc, feederPc, nodeChan, fed, wpc,
                   wnode, upc, uman, ctx, session, waitPc, stores, env>>

\* ... close(r.errCh) and r.rateLimiter.Stop() ...
HandlerCloseErr ==
    /\ Running
    /\ hpc = "closeErr"
    /\ errCh' = "closed"
    /\ rateLimiter' = IF rateLimiter # "nil" THEN "stopped" ELSE rateLimiter
    /\ hpc' = "destroy"
    /\ UNCHANGED <<active, nodes, completedCount, manifest, timeout,
                   threshold, podLabels, timedOutReplications,
                   concurrentRealityRequests, nodeQueue,
                   replicationCancelledCh, replicationDoneCh, quitCh,
                   enactedCh, enactPc, feederPc, nodeChan, fed, wpc, wnode,
                   upc, uman, ctx, session, waitPc, stores, env>>

\* ... session.Destroy()
HandlerDestroy ==
    /\ Running
    /\ hpc = "destroy"
    /\ session' = "destroyed"
    /\ hpc' = "done"
    /\ UNCHANGED <<replFields, chans, enactPc, feederPc, nodeChan, fed, wpc,
                   wnode, upc, uman, ctx, waitPc, stores, env>>

\* ---------------------------------------------------------- public calls
\* Cancel(): close(r.replicationCancelledCh) if r.nodeQueue == nil; closing
\* a closed channel panics
CancelWithin(max) ==
    /\ Running
    /\ cancelCalls < max
    /\ cancelCalls' = cancelCalls + 1
    /\ IF nodeQueue # "nil"
       THEN UNCHANGED <<replicationCancelledCh, panicked>>
       ELSE IF replicationCancelledCh = "closed"
            THEN panicked' = TRUE /\ UNCHANGED replicationCancelledCh
            ELSE replicationCancelledCh' = "closed" /\ UNCHANGED panicked
    /\ UNCHANGED <<replFields, replicationDoneCh, quitCh, enactedCh, errCh,
                   procs, stores, setManifestCalls, lockVars, inputs, funVars>>

\* Cancel(), called at most MaxCancel times
Cancel == CancelWithin(MaxCancel)

\* a WaitForReplication() that does not block on r.quitCh
WaitReturnNoBlock ==
    /\ Running
    /\ waitPc = "waiting"
    /\ waitPc' = "returned"
    /\ UNCHANGED <<replFields, chans, enactPc, feederPc, nodeChan, fed, wpc,
                   wnode, upc, uman, ctx, hpc, session, stores, env>>

\* WaitForReplication(): <-r.quitCh
WaitReturn ==
    /\ Running
    /\ waitPc = "waiting"
    /\ quitCh = "closed"
    /\ waitPc' = "returned"
    /\ UNCHANGED <<replFields, chans, enactPc, feederPc, nodeChan, fed, wpc,
                   wnode, upc, uman, ctx, hpc, session, stores, env>>

\* a SetManifest that resets the counter whatever the hashes
SetManifestCountAlways(man) == 0

\* the new value of completedCount in SetManifest(man)
SetManifestCount(man) ==
    IF SHA(manifest) # SHA(man) THEN 0 ELSE completedCount

\* SetManifest(man), with a manifest value other than the current one
SetManifest(man) ==
    /\ Running
    /\ setManifestCalls < MaxSetManifest
    /\ man # manifest
    /\ setManifestCalls' = setManifestCalls + 1
    /\ completedCount' = SetManifestCount(man)
    /\ manifest' = man
    /\ UNCHANGED <<active, nodes, timeout, threshold, podLabels, rateLimiter,
                   timedOutReplications, concurrentRealityRequests,
                   nodeQueue, chans, procs, stores, cancelCalls,
                   panicked, lockVars, inputs, funVars>>

\* SetTimeout(t), with a value other than the current one
SetTimeout(t) ==
    /\ Running
    /\ t # timeout
    /\ timeout' = t
    /\ UNCHANGED <<active, nodes, completedCount, manifest, threshold,
                   podLabels, rateLimiter, timedOutReplications,
                   concurrentRealityRequests, nodeQueue, chans, procs,
                   stores, env>>

\* ------------------------------------------------------- lockHosts, lock
\* The store's side of the lock on consul.ReplicationLockPath(id).
\* session.Lock(lockPath) of replication r: granted when no session holds
\* the key and no lock delay runs, else the AlreadyLockedError; or it fails
StoreLockResults(r) ==
    IF sessions[r] # "live" THEN {"lock_err"}
    ELSE {"lock_err"} \cup
         (IF holders = {} /\ ~lockDelay THEN {"lock_granted"} ELSE {"lock_already"})

\* r.store.LockHolder(lockPath): the session that holds the key, or no
\* holder (the key is free or a lock delay runs), or an error
StoreHolderResults ==
    {[res |-> "holder_err", id |-> 0]} \cup
    (IF holders = {} THEN {[res |-> "holder_none", id |-> 0]}
     ELSE {[res |-> "holder_some", id |-> q] : q \in holders})

\* the store destroys session q: it no longer holds the key, and a lock
\* delay may start if it held it
StoreDestroy(q, by) ==
    /\ sessions' = [sessions EXCEPT ![q] = "destroyed"]
    /\ holders' = holders \ {q}
    /\ destroyedBy' = [destroyedBy EXCEPT ![q] =
                          IF sessions[q] = "live" THEN by ELSE destroyedBy[q]]
    /\ IF q \in holders THEN lockDelay' \in BOOLEAN ELSE UNCHANGED lockDelay

\* lockHosts: r.store.NewSession(lockMessage, nil); an error is returned
\* to the caller
LockNewSession(r) ==
    /\ lpc[r] = "start"
    /\ \/ /\ sessions' = [sessions EXCEPT ![r] = "live"]
          /\ lpc' = [lpc EXCEPT ![r] = "lock"]
       \/ /\ lpc' = [lpc EXCEPT ![r] = "failed"]
          /\ UNCHANGED sessions
    /\ UNCHANGED <<runVars, funVars, overrideLock, depth, heldId, calls, holders,
                   lockDelay, destroyedBy>>

\* lock: where it goes on the result of session.Lock(lockPath)
AfterLock(res) ==
    CASE res = "lock_granted" -> "ok"
      [] res = "lock_already" -> "holder"
      [] res = "lock_err"     -> "destroyOwn"

\* lock: unlocker, err := session.Lock(lockPath)
LockAttempt(r) ==
    /\ lpc[r] = "lock"
    /\ \E res \in StoreLockResults(r) :
          /\ calls' = [calls EXCEPT ![r] = Append(@, res)]
          /\ holders' = IF res = "lock_granted" THEN holders \cup {r} ELSE holders
          /\ lpc' = [lpc EXCEPT ![r] = AfterLock(res)]
    /\ UNCHANGED <<runVars, funVars, overrideLock, depth, heldId, sessions, lockDelay,
                   destroyedBy>>

\* a recursive call that passes its own overrideLock on
RetryOverrideKept(r) == overrideLock[r]

\* the overrideLock argument of the recursive call r.lock(session, lockPath, false)
RetryOverride(r) == FALSE

\* the overrideLock parameter of the call of lock that r is in
OverrideInEffect(r) == IF depth[r] = 0 THEN overrideLock[r] ELSE RetryOverride(r)

\* a lock that destroys whatever holder it reads, whatever its overrideLock
AfterHolderAnyFlag(r, res) ==
    IF res = "holder_some" THEN "destroy" ELSE "destroyOwn"

\* lock: where it goes on the result of r.store.LockHolder(lockPath)
AfterHolder(r, res) ==
    IF res = "holder_some" /\ OverrideInEffect(r) THEN "destroy" ELSE "destroyOwn"

\* lock: holder, id, err := r.store.LockHolder(lockPath)
LockHolderRead(r) ==
    /\ lpc[r] = "holder"
    /\ \E h \in StoreHolderResults :
          /\ calls' = [calls EXCEPT ![r] = Append(@, h.res)]
          /\ heldId' = [heldId EXCEPT ![r] = h.id]
          /\ lpc' = [lpc EXCEPT ![r] = AfterHolder(r, h.res)]
    /\ UNCHANGED <<runVars, funVars, overrideLock, depth, sessions, holders, lockDelay,
                   destroyedBy>>

\* a lock that returns success once the holder is destroyed, with no retry
AfterDestroyNoRetry(ok) == IF ok THEN "ok" ELSE "destroyOwn"

\* lock: where it goes after r.store.DestroyLockHolder(id)
AfterDestroy(ok) == IF ok THEN "lock" ELSE "destroyOwn"

\* lock: err = r.store.DestroyLockHolder(id), then the recursive call
LockDestroyHolder(r) ==
    /\ lpc[r] = "destroy"
    /\ \/ /\ StoreDestroy(heldId[r], r)
          /\ calls' = [calls EXCEPT ![r] = Append(@, "destroy_ok")]
          /\ lpc' = [lpc EXCEPT ![r] = AfterDestroy(TRUE)]
          /\ depth' = [depth EXCEPT ![r] = 1]
       \/ /\ calls' = [calls EXCEPT ![r] = Append(@, "destroy_err")]
          /\ lpc' = [lpc EXCEPT ![r] = AfterDestroy(FALSE)]
          /\ UNCHANGED <<depth, sessions, holders, lockDelay, destroyedBy>>
    /\ UNCHANGED <<runVars, funVars, overrideLock, heldId>>

\* lockHosts, lock having failed: _ = session.Destroy(); return nil, nil, err
LockDestroyOwn(r) ==
    /\ lpc[r] = "destroyOwn"
    /\ StoreDestroy(r, r)
    /\ lpc' = [lpc EXCEPT ![r] = "failed"]
    /\ UNCHANGED <<runVars, funVars, overrideLock, depth, heldId, calls>>

\* the replication that got the lock ends: handleReplicationEnd destroys
\* its session
LockedRunEnds(r) ==
    /\ lpc[r] = "ok"
    /\ StoreDestroy(r, r)
    /\ lpc' = [lpc EXCEPT ![r] = "ended"]
    /\ UNCHANGED <<runVars, funVars, overrideLock, depth, heldId, calls>>

\* the store's lock delay ends
LockDelayEnds ==
    /\ lockDelay
    /\ lockDelay' = FALSE
    /\ UNCHANGED <<runVars, funVars, overrideLock, lpc, depth, heldId, calls, sessions,
                   holders, destroyedBy>>

\* --------------------------------------------------------- specifications
\* Enact, the end handler and the caller waiting in WaitForReplication
Control ==
    \/ EnactStart
    \/ EnactHealthFail
    \/ EnactErrSend
    \/ EnactHealthOk
    \/ EnactSpawn
    \/ EnactWait
    \/ EnactCloseEnacted
    \/ EnactCloseDone
    \/ HandlerDone
    \/ HandlerCloseQuit
    \/ HandlerCloseErr
    \/ HandlerDestroy
    \/ WaitReturn

\* the worker pool and the per-node updaters
Pool ==
    \/ \E w \in Workers : WorkerQueueClosed(w)
    \/ \E w \in Workers : WorkerCtxDone(w)
    \/ \E w \in Workers : WorkerQuit(w)
    \/ \E n \in Nodes : UAcquire(n)
    \/ \E n \in Nodes : UShouldSchedule(n)
    \/ \E n \in Nodes : UWrite(n)
    \/ \E n \in Nodes : UInReality(n)
    \/ \E n \in Nodes : URealityRead(n)
    \/ \E n \in Nodes : UHealthy(n)

\* the feeder of a run over r.nodes
Feeder ==
    \/ FeederTick
    \/ FeederStop
    \/ \E w \in Workers : WorkerRecv(w)

\* Cancel() of a run over r.nodes, and the end handler's reaction
Cancellation ==
    \/ Cancel
    \/ HandlerCancelled
    \/ HandlerEnacted

\* loss of the session, per-node deadlines and SetTimeout
LockLoss ==
    \/ HandlerRenewalErr
    \/ HandlerErrSend

Deadlines ==
    \/ \E n \in Nodes : Timeout(n)
    \/ \E t \in Timeouts : SetTimeout(t)

Next ==
    \/ Control
    \/ Pool
    \/ Feeder
    \/ Cancellation
    \/ LockLoss
    \/ Deadlines

\* a run over the node list r.nodes, with Cancel, loss of the session,
\* per-node deadlines and SetTimeout
Spec == Init /\ [][Next]_vars

NextManifest ==
    \/ Control
    \/ Pool
    \/ Feeder
    \/ Cancellation
    \/ \E n \in Nodes : Timeout(n)
    \/ \E man \in Manifests : SetManifest(man)

\* a run over the node list r.nodes with a finite per-node timeout, with
\* Cancel and SetManifest
InitManifest ==
    /\ InitCommon
    /\ timeout = "finite"
    /\ nodeQueue = "nil"
    /\ rateLimiter = "ticking"

SpecManifest == InitManifest /\ [][NextManifest]_vars

NextQueue ==
    \/ Next
    \/ \E w \in Workers : QueueSend(w)
    \/ QueueClose

\* a run over the node list r.nodes or over a queue supplied by the caller
SpecQueue == (Init \/ InitQueue) /\ [][NextQueue]_vars

\* replications of one pod ID call lockHosts, each with its overrideLock
InitLock ==
    /\ InitRun
    /\ InitInputs
    /\ InitFun
    /\ active = 1
    /\ timeout = NoTimeout
    /\ nodeQueue = "nil"
    /\ rateLimiter = "ticking"
    /\ InitLocks
    /\ overrideLock \in [Repls -> BOOLEAN]

NextLock ==
    \/ \E r \in Repls : LockNewSession(r)
    \/ \E r \in Repls : LockAttempt(r)
    \/ \E r \in Repls : LockHolderRead(r)
    \/ \E r \in Repls : LockDestroyHolder(r)
    \/ \E r \in Repls : LockDestroyOwn(r)
    \/ \E r \in Repls : LockedRunEnds(r)
    \/ LockDelayEnds

SpecLock == InitLock /\ [][NextLock]_vars

\* ---------------------------------------------------------------- fairness
\* the steps of Enact() itself
EnactStep ==
    \/ EnactStart
    \/ EnactHealthFail
    \/ EnactErrSend
    \/ EnactHealthOk
    \/ EnactSpawn
    \/ EnactWait
    \/ EnactCloseEnacted
    \/ EnactCloseDone

\* the steps of the feeder goroutine
FeederStep ==
    \/ FeederTick
    \/ FeederStop
    \/ \E w \in Workers : WorkerRecv(w)

\* the steps of worker w
WorkerStep(w) ==
    \/ WorkerRecv(w)
    \/ WorkerQueueClosed(w)
    \/ WorkerCtxDone(w)
    \/ WorkerQuit(w)

\* the steps of the updater goroutine of node n
UpdaterStep(n) ==
    \/ UAcquire(n)
    \/ UShouldSchedule(n)
    \/ UWrite(n)
    \/ UInReality(n)
    \/ URealityRead(n)
    \/ UHealthy(n)

\* the steps of handleReplicationEnd once its select has chosen
HandlerStep ==
    \/ HandlerDone
    \/ HandlerEnacted
    \/ HandlerErrSend
    \/ HandlerCloseQuit
    \/ HandlerCloseErr
    \/ HandlerDestroy

\* the Go scheduler runs every goroutine that can take a step, a ready
\* select proceeds, and the caller of Enact() and WaitForReplication() runs
RunFair ==
    /\ WF_vars(EnactStep)
    /\ WF_vars(FeederStep)
    /\ \A w \in Workers : WF_vars(WorkerStep(w))
    /\ \A n \in Nodes : WF_vars(UpdaterStep(n))
    /\ WF_vars(HandlerStep)
    /\ WF_vars(WaitReturn)

\* a run over r.nodes whose nodes all run the content of the manifest
\* already, with a reality store whose reads fail or not
InitCurrent ==
    /\ InitRun
    /\ InitFun
    /\ InitLocks
    /\ overrideLock = [r \in Repls |-> FALSE]
    /\ nodes = [i \in 1..NumNodes |-> i]
    /\ reality = [n \in Nodes |-> SHA("M1")]
    /\ readFails \in BOOLEAN
    /\ writeFails = TRUE
    /\ serviceHealth \in HealthSnapshots
    /\ errReader = "reading"
    /\ timeout = NoTimeout
    /\ nodeQueue = "nil"
    /\ rateLimiter = "ticking"

\* such a run with loss of the session, without Cancel and deadlines
NextCurrent ==
    \/ Control
    \/ Pool
    \/ Feeder
    \/ LockLoss

SpecCurrent == InitCurrent /\ [][NextCurrent]_vars /\ RunFair

\* a run over r.nodes whose nodes all need the update, with no Cancel, no
\* loss of the session and no deadline, with store writes that fail or not
InitRollout ==
    /\ InitRun
    /\ InitFun
    /\ InitLocks
    /\ overrideLock = [r \in Repls |-> FALSE]
    /\ nodes = [i \in 1..NumNodes |-> i]
    /\ reality \in [Nodes -> {"none", SHA("M2")}]
    /\ readFails = TRUE
    /\ writeFails \in BOOLEAN
    /\ serviceHealth \in HealthSnapshots
    /\ errReader = "reading"
    /\ timeout = NoTimeout
    /\ nodeQueue = "nil"
    /\ rateLimiter = "ticking"

\* quitCh and replicationCancelledCh stay open while such a run is
\* enacted, so the feeder and the workers never take their cases
NextRollout ==
    \/ Control
    \/ FeederTick
    \/ \E w \in Workers : WorkerRecv(w)
    \/ \E w \in Workers : WorkerQueueClosed(w)
    \/ \E w \in Workers : WorkerCtxDone(w)
    \/ \E n \in Nodes : UpdaterStep(n)

SpecRollout == InitRollout /\ [][NextRollout]_vars /\ RunFair

\* the node lists a caller may pass: the orderings of the nodes
NodeLists ==
    {l \in [1..NumNodes -> Nodes] : \A i, j \in 1..NumNodes : i # j => l[i] # l[j]}

\* the snapshots r.health.Service() may return: a state for some of the
\* nodes, none for the others
ServiceSnapshots == UNION {[D -> HealthStates] : D \in SUBSET Nodes}

\* a run over r.nodes in any order and with any health snapshot, with no
\* Cancel, no loss of the session, no deadline and no failing store call
InitOrder ==
    /\ InitRun
    /\ InitFun
    /\ InitLocks
    /\ overrideLock = [r \in Repls |-> FALSE]
    /\ nodes \in NodeLists
    /\ reality \in RealityInits
    /\ readFails = FALSE
    /\ writeFails = FALSE
    /\ serviceHealth \in ServiceSnapshots
    /\ errReader = "reading"
    /\ timeout = NoTimeout
    /\ nodeQueue = "nil"
    /\ rateLimiter = "ticking"

SpecOrder == InitOrder /\ [][NextRollout]_vars

\* getRolloutOrder on every ordering of an allocation's nodes and every
\* status of each node
InitRolloutOrder ==
    /\ InitRun
    /\ InitInputs
    /\ InitManaged
    /\ InitAggregator
    /\ InitEndpoints
    /\ InitChecker
    /\ InitReality
    /\ InitNoLog
    /\ InitLocks
    /\ overrideLock = [r \in Repls |-> FALSE]
    /\ active = 1
    /\ timeout = NoTimeout
    /\ nodeQueue = "nil"
    /\ rateLimiter = "ticking"
    /\ ordNodes \in {l \in [OrdNames -> OrdNames] :
                        \A i, j \in OrdNames : i # j => l[i] # l[j]}
    /\ ordStatus \in [OrdNames -> OrdStatuses]
    /\ ordOut = [res |-> "none", seq |-> <<>>]

SpecRolloutOrder == InitRolloutOrder /\ [][GetRolloutOrder]_vars

\* a replication whose target nodes carry the controller's label or not, or
\* whose labels cannot be read, in any order of r.nodes
InitManagedRun ==
    /\ InitRun
    /\ InitOrderer
    /\ InitAggregator
    /\ InitEndpoints
    /\ InitChecker
    /\ InitReality
    /\ InitNoLog
    /\ InitLocks
    /\ overrideLock = [r \in Repls |-> FALSE]
    /\ nodes \in NodeLists
    /\ reality \in RealityInits
    /\ readFails = FALSE
    /\ writeFails = FALSE
    /\ serviceHealth \in HealthSnapshots
    /\ errReader = "reading"
    /\ timeout = NoTimeout
    /\ nodeQueue = "nil"
    /\ rateLimiter = "ticking"
    /\ rcLabel \in [Nodes -> {"managed", "plain", "err"}]
    /\ cfm = [res |-> "notCalled", bad |-> <<>>]

\* the caller checks for managed nodes first and goes on to Enact() only
\* if the check returned nil
NextManaged ==
    \/ CheckForManaged
    \/ cfm.res = "nil" /\ NextRollout

SpecManaged == InitManagedRun /\ [][NextManaged]_vars

\* an aggregator, its watcher and its readers
InitAggregatorRun ==
    /\ InitRun
    /\ InitInputs
    /\ InitIdle
    /\ InitLocks
    /\ overrideLock = [r \in Repls |-> FALSE]
    /\ active = 1
    /\ timeout = NoTimeout
    /\ nodeQueue = "nil"
    /\ rateLimiter = "ticking"

\* the goroutines that can take a step are run; sync.Mutex does not starve
\* a goroutine that waits for p.cond.L while readers take it again and
\* again; and a select that finds p.quit or resultCh closed every time it
\* is reached takes that case in the end, Go choosing among the ready
\* cases at random
AggregatorFair ==
    /\ SF_vars(CtorStep)
    /\ SF_vars(WatchStore)
    /\ SF_vars(WatchReturn)
    /\ SF_vars(WatchDeferred)
    /\ WF_vars(ReadStep)

SpecAggregator == InitAggregatorRun /\ [][NextAggregator]_vars /\ AggregatorFair

\* nodeIDsToStatusEndpoints on every list of node names and every stanza
InitEndpointsRun ==
    /\ InitRun
    /\ InitInputs
    /\ InitManaged
    /\ InitOrderer
    /\ InitAggregator
    /\ InitChecker
    /\ InitReality
    /\ InitNoLog
    /\ InitLocks
    /\ overrideLock = [r \in Repls |-> FALSE]
    /\ active = 1
    /\ timeout = NoTimeout
    /\ nodeQueue = "nil"
    /\ rateLimiter = "ticking"
    /\ epNodes \in UNION {[1..k -> NodeNames] : k \in 1..MaxListLen}
    /\ epStanza \in Stanzas
    /\ epOut = [res |-> "none", urls |-> <<>>, names |-> <<>>]

SpecEndpoints == InitEndpointsRun /\ [][BuildEndpoints]_vars

\* a run over r.nodes or over a queue of the caller, which sends nodes and
\* closes the queue when it likes, with loss of the session, without Cancel
\* and deadlines
InitQuit ==
    /\ InitCommon
    /\ timeout = NoTimeout
    /\ \/ nodeQueue = "nil" /\ rateLimiter = "ticking"
       \/ nodeQueue = "open" /\ rateLimiter = "nil"

NextQuit ==
    \/ Control
    \/ Pool
    \/ Feeder
    \/ LockLoss
    \/ \E w \in Workers : QueueSend(w)
    \/ QueueClose

SpecQuit == InitQuit /\ [][NextQuit]_vars /\ RunFair

\* a run over r.nodes with all its workers, a per-node timeout and Cancel,
\* in which what updateOne does for each node is logged
InitUpdate ==
    /\ InitRun
    /\ InitInputs
    /\ InitManaged
    /\ InitOrderer
    /\ InitAggregator
    /\ InitEndpoints
    /\ InitChecker
    /\ InitReality
    /\ ulog = [on |-> TRUE, of |-> [n \in Nodes |-> <<>>]]
    /\ active = MaxActive
    /\ InitLocks
    /\ overrideLock = [r \in Repls |-> FALSE]
    /\ timeout = "finite"
    /\ nodeQueue = "nil"
    /\ rateLimiter = "ticking"

NextUpdate ==
    \/ Control
    \/ Pool
    \/ Feeder
    \/ Cancellation
    \/ \E n \in Nodes : Timeout(n)

SpecUpdate == InitUpdate /\ [][NextUpdate]_vars

\* the thresholds a replication may be built with
Thresholds == {""} \cup HealthStates

\* a run over r.nodes of a replication built with any threshold, with no
\* Cancel, no loss of the session and no deadline, in which what updateOne
\* does for each node is logged
InitHealthWait ==
    /\ \E th \in Thresholds : InitRunWith(th)
    /\ InitInputs
    /\ InitManaged
    /\ InitOrderer
    /\ InitAggregator
    /\ InitEndpoints
    /\ InitChecker
    /\ InitReality
    /\ ulog = [on |-> TRUE, of |-> [n \in Nodes |-> <<>>]]
    /\ InitLocks
    /\ overrideLock = [r \in Repls |-> FALSE]
    /\ timeout = NoTimeout
    /\ nodeQueue = "nil"
    /\ rateLimiter = "ticking"

SpecHealthWait == InitHealthWait /\ [][NextRollout]_vars

\* a run over r.nodes, each of which runs nothing or the content of M2,
\* with SetManifest, with no Cancel, no loss of the session and no
\* deadline, in which what updateOne does is logged
InitRetarget ==
    /\ InitRun
    /\ nodes = [i \in 1..NumNodes |-> i]
    /\ reality \in [Nodes -> {"none", SHA("M2")}]
    /\ readFails = TRUE
    /\ writeFails = TRUE
    /\ serviceHealth \in HealthSnapshots
    /\ errReader = "reading"
    /\ InitManaged
    /\ InitOrderer
    /\ InitAggregator
    /\ InitEndpoints
    /\ InitChecker
    /\ InitReality
    /\ ulog = [on |-> TRUE, of |-> [n \in Nodes |-> <<>>]]
    /\ InitLocks
    /\ overrideLock = [r \in Repls |-> FALSE]
    /\ timeout = NoTimeout
    /\ nodeQueue = "nil"
    /\ rateLimiter = "ticking"

NextRetarget ==
    \/ NextRollout
    \/ \E man \in Manifests : SetManifest(man)

SpecRetarget == InitRetarget /\ [][NextRetarget]_vars

\* a run over r.nodes on which Cancel() is called more than once, with
\* loss of the session
NextCancels ==
    \/ Control
    \/ Pool
    \/ Feeder
    \/ LockLoss
    \/ CancelWithin(MaxCancels)
    \/ HandlerCancelled
    \/ HandlerEnacted

SpecCancels == Init /\ [][NextCancels]_vars

\* the caller stops receiving from errCh
ErrReaderStops ==
    /\ Running
    /\ errReader = "reading"
    /\ errReader' = "stopped"
    /\ UNCHANGED <<replFields, chans, procs, stores, setManifestCalls,
                   cancelCalls, panicked, lockVars, readFails, writeFails,
                   serviceHealth, funVars>>

\* a run over r.nodes with Cancel, whose caller may stop receiving from
\* errCh; the session is not lost
NextCancelled ==
    \/ Control
    \/ Pool
    \/ Feeder
    \/ Cancellation
    \/ ErrReaderStops

\* the select of a wait whose replicationCancelledCh case is ready at every
\* poll takes that case in the end: Go chooses among the ready cases at
\* random
UCancelledExit(n) ==
    /\ replicationCancelledCh = "closed"
    /\ upc[n] \in {"inReality", "healthy"}
    /\ UpdaterStep(n)
    /\ upc'[n] = "returned"

SpecCancelled ==
    /\ Init
    /\ [][NextCancelled]_vars
    /\ RunFair
    /\ \A n \in Nodes : SF_vars(UCancelledExit(n))

\* calls of the health checker, in any order
InitCheckerRun ==
    /\ InitRun
    /\ InitInputs
    /\ InitIdle
    /\ InitLocks
    /\ overrideLock = [r \in Repls |-> FALSE]
    /\ active = 1
    /\ timeout = NoTimeout
    /\ nodeQueue = "nil"
    /\ rateLimiter = "ticking"

SpecChecker == InitCheckerRun /\ [][NextChecker]_vars

\* calls of queryReality for the nodes, against the semaphore and the clock
SpecReality == InitCheckerRun /\ [][NextReality]_vars

\* ================================================================ claims
InFlight == {n \in Nodes : upc[n] \notin {"none", "returned"}}
Returned == {n \in Nodes : upc[n] = "returned"}
WorkersRunning == {w \in Workers : wpc[w] \in {"recv", "select"}}

\* C1: at every point of Enact() the number of per-node updates that have
\* started and not yet returned is at most active
C1_InFlightAtMostActive == Cardinality(InFlight) <= active

\* C5: when Enact() has returned, enactedCh and replicationDoneCh are
\* closed, and neither is closed while a worker of the pool is running
C5_EnactClosesChannels ==
    /\ enactPc = "returned" =>
          enactedCh = "closed" /\ replicationDoneCh = "closed"
    /\ enactedCh = "closed" \/ replicationDoneCh = "closed" =>
          WorkersRunning = {}

\* a run whose workers updated a node has returned from Enact()
C5_Witness ==
    /\ enactPc = "returned"
    /\ Returned # {}
    /\ \E w \in Workers : wpc[w] = "done"

\* C6 as stated: when WaitForReplication() has returned, quitCh is closed,
\* the workers of the run have shut down and its session is destroyed
C6_WaitAfterTearDown ==
    waitPc = "returned" =>
        /\ quitCh = "closed"
        /\ WorkersRunning = {}
        /\ session = "destroyed"

\* C6 amended: WaitForReplication() returns only once quitCh is closed;
\* quitCh is closed by the end handler alone, as the first step of its
\* tear-down, and the session is destroyed only after that
C6_WaitAfterQuit ==
    /\ waitPc = "returned" => quitCh = "closed"
    /\ quitCh = "closed" <=> hpc \in {"closeErr", "destroy", "done"}
    /\ session = "destroyed" => quitCh = "closed" /\ errCh = "closed"

\* WaitForReplication() has returned while the session is still live
C6_Witness ==
    /\ waitPc = "returned"
    /\ session = "live"

\* C7: Cancel() with a nil nodeQueue closes replicationCancelledCh and from
\* then on the feeder emits no node; with a caller's queue Cancel() closes
\* nothing, only the caller closes the queue, and Enact() returns only
\* after the caller has closed it
C7_CancelAndQueue ==
    [][ /\ nodeQueue = "nil" /\ cancelCalls' # cancelCalls =>
              replicationCancelledCh' = "closed"
        /\ replicationCancelledCh = "closed" => fed' = fed
        /\ nodeQueue # "nil" => replicationCancelledCh' = "open"
        /\ nodeQueue' # nodeQueue => nodeQueue = "open" /\ enactPc' = enactPc
        /\ nodeQueue' # "nil" /\ enactPc' = "returned" => nodeQueue' = "closed"
      ]_vars

\* C8: once Cancel() has returned (nil nodeQueue) the feeder hands out no
\* further node and no intent write is issued
C8_NoWriteAfterCancel ==
    [][ replicationCancelledCh = "closed" =>
            /\ fed' = fed
            /\ issued' = issued
            /\ intent' = intent ]_vars

\* C9: completedCount changes only by an increment of 1 made by a returning
\* updater or by a reset to 0 made by a SetManifest whose hash differs from
\* the current manifest's; a SetManifest with an equal hash leaves it alone
C9_CountChanges ==
    [][ /\ completedCount' # completedCount =>
              \/ /\ completedCount' = completedCount + 1
                 /\ Returned' # Returned
                 /\ setManifestCalls' = setManifestCalls
              \/ /\ completedCount' = 0
                 /\ setManifestCalls' # setManifestCalls
                 /\ SHA(manifest') # SHA(manifest)
        /\ setManifestCalls' # setManifestCalls =>
              completedCount' = IF SHA(manifest') # SHA(manifest)
                                THEN 0 ELSE completedCount
      ]_vars

\* every updater has returned, at least one was counted, and a SetManifest
\* to M2 has put the counter back to 0
C9_Witness ==
    /\ Returned = Nodes
    /\ scheduled # {}
    /\ manifest = "M2"
    /\ completedCount = 0

\* C10 as stated: without SetManifest, once every started updater has
\* returned completedCount is the number of nodes for which an intent write
\* was issued
C10_CountIsWritesIssued ==
    InFlight = {} => completedCount = Cardinality(issued)

\* C10 amended: without SetManifest, once every started updater has
\* returned completedCount is the number of nodes that updateOne decided to
\* schedule (shouldScheduleForNode returned true), whether or not the
\* intent write was then issued; a skipped node adds 0
C10_CountIsScheduled ==
    InFlight = {} => completedCount = Cardinality(scheduled)

\* all updaters have returned: one node was skipped, another was scheduled
\* but failed before its intent write was issued
C10_Witness ==
    /\ Returned = Nodes
    /\ Cardinality(scheduled) = 1
    /\ issued = {}
    /\ completedCount = 1

\* ------------------------------------------------------------- lock claims
LockResults == {"lock_granted", "lock_already", "lock_err"}
HolderResults == {"holder_some", "holder_none", "holder_err"}
DestroyResults == {"destroy_ok", "destroy_err"}

\* the number of calls in log c whose result is in S
CountCalls(c, S) == Cardinality({i \in 1..Len(c) : c[i] \in S})

\* lock() of replication r has returned
LockReturned(r) == lpc[r] \in {"ok", "destroyOwn", "failed", "ended"}

\* C2: at most one session holds the replication lock of the pod ID at any
\* time, whatever overrideLock the concurrent replications have, and lock()
\* returns success only when the last thing it did was a granted Lock(path)
\* of its own session, which then holds the lock while it lives.
C2_OneLockHolder ==
    /\ Cardinality(holders) <= 1
    /\ \A r \in Repls : r \in holders => sessions[r] = "live"
    /\ \A r \in Repls : lpc[r] = "ok" =>
          /\ Len(calls[r]) > 0
          /\ calls[r][Len(calls[r])] = "lock_granted"
          /\ sessions[r] = "live" => holders = {r}

\* C2 witness: a replication got the lock by override from another one
\* that had been granted it
C2_Witness ==
    \E r, q \in Repls :
        /\ r # q
        /\ lpc[r] = "ok" /\ r \in holders
        /\ destroyedBy[q] = r
        /\ CountCalls(calls[q], {"lock_granted"}) = 1

\* C3 as stated: with overrideLock set, already-locked and a holder read,
\* a returned lock() has called DestroyLockHolder exactly once and Lock
\* exactly twice.
C3_DestroyThenRetry ==
    \A r \in Repls :
        (/\ LockReturned(r) /\ overrideLock[r] /\ Len(calls[r]) >= 2
         /\ calls[r][1] = "lock_already" /\ calls[r][2] = "holder_some")
        => /\ CountCalls(calls[r], DestroyResults) = 1
           /\ CountCalls(calls[r], LockResults) = 2

\* C3: with overrideLock set, already-locked and a holder read, lock()
\* calls DestroyLockHolder exactly once; if that call succeeds it retries
\* Lock exactly once with overrideLock=false, and a retry that is again
\* already-locked fails without destroying again; if the call fails lock()
\* fails with no retry. One lock() makes at most 2 Lock attempts and at
\* most 1 DestroyLockHolder call.
C3_DestroyThenRetryIfDestroyed ==
    \A r \in Repls :
        /\ CountCalls(calls[r], LockResults) <= 2
        /\ CountCalls(calls[r], DestroyResults) <= 1
        /\ (/\ LockReturned(r) /\ overrideLock[r] /\ Len(calls[r]) >= 2
            /\ calls[r][1] = "lock_already" /\ calls[r][2] = "holder_some")
           => /\ Len(calls[r]) >= 3
              /\ calls[r][3] \in DestroyResults
              /\ calls[r][3] = "destroy_err" => Len(calls[r]) = 3 /\ lpc[r] # "ok"
              /\ calls[r][3] = "destroy_ok" =>
                    /\ Len(calls[r]) >= 4
                    /\ calls[r][4] \in LockResults
                    /\ CountCalls(calls[r], LockResults) = 2
                    /\ calls[r][4] = "lock_already" =>
                          /\ Len(calls[r]) = 5
                          /\ calls[r][5] \in HolderResults
                          /\ lpc[r] # "ok"

\* C3 witness: the retry after a destroy found the lock held again, by a
\* third replication, and lock() failed
C3_Witness ==
    \E r \in Repls :
        /\ lpc[r] = "failed"
        /\ calls[r] = <<"lock_already", "holder_some", "destroy_ok",
                        "lock_already", "holder_some">>

\* C4: DestroyLockHolder is called only with overrideLock set and right
\* after LockHolder returned a holder; a replication without overrideLock
\* destroys no other session; an empty holder ends lock() with no retry
\* and no destroy; and after a failed lockHosts the caller has no session.
C4_DestroyOnlyOnOverride ==
    \A r \in Repls :
        /\ \A i \in 1..Len(calls[r]) : calls[r][i] \in DestroyResults =>
              /\ overrideLock[r]
              /\ i > 1 /\ calls[r][i-1] = "holder_some"
        /\ ~overrideLock[r] =>
              /\ \A q \in Repls \ {r} : destroyedBy[q] # r
              /\ Len(calls[r]) > 0 /\ calls[r][1] = "lock_already" => lpc[r] # "ok"
        /\ \A i \in 1..Len(calls[r]) : calls[r][i] = "holder_none" =>
              /\ i = Len(calls[r])
              /\ lpc[r] \in {"destroyOwn", "failed"}
        /\ lpc[r] = "failed" => sessions[r] \in {"none", "destroyed"} /\ r \notin holders

\* C4 witness: one replication without overrideLock failed on a lock that is
\* held, its holder left alive, and one with overrideLock failed on an
\* empty holder
C4_Witness ==
    \E r, q, h \in Repls :
        /\ ~overrideLock[r] /\ lpc[r] = "failed"
        /\ calls[r] = <<"lock_already", "holder_some">>
        /\ heldId[r] = h /\ destroyedBy[h] = h
        /\ overrideLock[q] /\ lpc[q] = "failed"
        /\ calls[q] = <<"lock_already", "holder_none">>

Waiting(n) == upc[n] \in {"inReality", "podR", "healthy"}

\* C12: in a run over nodes that all need the update, with no Cancel, no
\* deadline, no loss of the session and no failing store write, every step
\* that issues an intent write issues it for one node not written before;
\* when Enact() has returned every node has got its intent write,
\* CompletedCount() is the number of nodes and timedOutReplications is
\* empty; and if no node waits for ever for reality or health, Enact()
\* returns.
C12_EveryNodeWrittenOnce ==
    /\ [][issued' # issued =>
            \E n \in Nodes \ issued : issued' = issued \cup {n}]_vars
    /\ []((~writeFails /\ enactPc = "returned" /\ nodeChan # "nil") =>
            /\ issued = Nodes
            /\ \A n \in Nodes : intent[n] = "M1"
            /\ Returned = Nodes
            /\ completedCount = NumNodes
            /\ timedOutReplications = <<>>)
    /\ (\A n \in Nodes : []<>(~Waiting(n))) => <>(enactPc = "returned")

\* C12 witness: Enact() has returned from a run whose writes did not fail,
\* with every node written and counted
C12_Witness ==
    /\ ~writeFails
    /\ enactPc = "returned"
    /\ issued = Nodes
    /\ completedCount = NumNodes
    /\ timedOutReplications = <<>>

\* ----------------------------------------------------------- feeding order
\* C13: with the internal feeder the k-th node a worker receives is the
\* k-th node of the node list sorted against the health snapshot Enact()
\* read at its start, and once sorted r.nodes is not reordered
C13_FedInSnapshotOrder ==
    [][ /\ fed' = fed + 1 =>
              \E w \in Workers :
                  /\ wpc[w] = "recv" /\ wpc'[w] = "select"
                  /\ wnode'[w] = SortNodes(nodes, serviceHealth)[fed']
        /\ enactPc \notin {"notStarted", "health"} => nodes' = nodes
      ]_vars

\* C13 witness: the caller's list was not in rollout order and all its
\* nodes have been handed to the pool
C13_Witness ==
    /\ fed = NumNodes
    /\ nodes # [i \in 1..NumNodes |-> i]
    /\ 1 \in DOMAIN serviceHealth /\ serviceHealth[1] = "passing"
    /\ Returned = Nodes

\* ------------------------------------------------------- the rollout order
\* the bucket of a status in the stated order: critical (unhealthy), then
\* unknown or missing (no status), then passing
OrdBucket(st) ==
    CASE st = "unhealthy" -> 0
      [] st = "healthy"   -> 3
      [] OTHER            -> 1

\* C14: the rollout order is the input nodes sorted by health bucket,
\* critical first, then unknown or missing, then passing, ties broken by
\* ascending node name
C14_OrderedByBucketThenName ==
    ordOut.res = "sorted" =>
        /\ Range(ordOut.seq) = Range(ordNodes)
        /\ \A i, j \in DOMAIN ordOut.seq : i < j =>
              \/ OrdBucket(ordStatus[ordOut.seq[i]]) < OrdBucket(ordStatus[ordOut.seq[j]])
              \/ /\ OrdBucket(ordStatus[ordOut.seq[i]]) = OrdBucket(ordStatus[ordOut.seq[j]])
                 /\ ordOut.seq[i] < ordOut.seq[j]

\* the run has ended as a lost session ends it: a fatal error was received
\* on errCh, quitCh is closed, no worker runs, WaitForReplication() returned
EndedByLockLoss ==
    /\ "fatal" \in Range(errLog)
    /\ quitCh = "closed"
    /\ WorkersRunning = {}
    /\ waitPc = "returned"

\* C15: once the renewal-error channel of the session has delivered an
\* error to the end handler, eventually a fatal error is received on errCh,
\* quitCh is closed, every worker has stopped and WaitForReplication() has
\* returned
C15_LockLossEndsRun == (hpc = "errSend") ~> EndedByLockLoss

\* C16: session.Destroy() is called only when every worker of the pool and
\* every per-node updater has exited
C16_DestroyAfterWorkersExit ==
    [][session = "live" /\ session' = "destroyed" =>
          WorkersRunning = {} /\ InFlight = {}]_vars

\* the updater of node n, waiting in ensureInReality with the deadline of
\* its context passed and the run not cancelled, returns from updateOne
TimedOutReturn(n) ==
    /\ upc[n] = "inReality"
    /\ ctx[n] = "done"
    /\ replicationCancelledCh = "open"
    /\ upc'[n] = "returned"

\* C17: a node whose reality has not reported the target hash when the
\* deadline of its context passes is appended to timedOutReplications when
\* its updater returns, and nothing is sent on errCh on its account
C17_TimedOutNodeRecorded ==
    [][\A n \in Nodes :
          TimedOutReturn(n) =>
              /\ timedOutReplications' = Append(timedOutReplications, n)
              /\ errLog' = errLog]_vars

\* updateOne of node n returns an error of SetPodTxn, of SetLabelsTxn or of
\* the commit, the deadline of its context not having passed
WriteFailed(n) ==
    /\ upc[n] = "write"
    /\ ctx[n] # "done"
    /\ upc'[n] = "returned"

\* updateOne of node n returns nil, errTimeout, errCancelled or errQuit
\* from shouldScheduleForNode, ensureInReality or ensureHealthy
WaitReturned(n) ==
    /\ upc[n] \in {"podS", "inReality", "healthy"}
    /\ upc'[n] = "returned"

\* C18: an error of building or committing the intent write of a node is
\* sent on errCh, and the return of errTimeout, errCancelled or errQuit
\* sends nothing on errCh
C18_UpdaterErrorsOnErrCh ==
    [][\A n \in Nodes :
          /\ WriteFailed(n) => errLog' # errLog
          /\ WaitReturned(n) => errLog' = errLog]_vars

\* Enact() of a run over r.nodes is past a failed r.health.Service(): it is
\* past the fetch and never made nodeChan
HealthFetchFailed ==
    /\ nodeQueue = "nil"
    /\ enactPc \notin {"notStarted", "health"}
    /\ nodeChan = "nil"

\* C19: after a failed health fetch Enact() is at the select that offers the
\* fatal error on errCh or on its way to return, it has started no feeder
\* and no worker and no intent write was issued; once it has returned and
\* the end handler has finished, quitCh is closed and the session destroyed
C19_HealthFetchFailureEndsRun ==
    HealthFetchFailed =>
        /\ enactPc \in {"errSend", "closeEnacted", "closeDone", "returned"}
        /\ feederPc = "none"
        /\ \A w \in Workers : wpc[w] = "unspawned"
        /\ issued = {}
        /\ (enactPc = "returned" /\ hpc = "done") =>
              quitCh = "closed" /\ session = "destroyed"

\* the target nodes whose pod carries rc.RCIDLabel
ManagedNodes == {n \in Nodes : rcLabel[n] = "managed"}

C21_ConstructorReturns ==
    /\ [][ctorPc # "returned" /\ ctorPc' = "returned" => curHealth # "nil"]_vars
    /\ (wsPc = "exited") ~> (ctorPc = "returned")
    /\ <>[](curHealth # "nil") => <>(ctorPc = "returned")
    /\ [][curHealth = "nil" /\ watchPc = "deferred" /\ watchPc' = "done" =>
            curHealth' = "empty"]_vars

\* C21 witness: the constructor has returned with the empty map that the
\* deferred function of beginWatch installed after the watcher's exit
C21_Witness ==
    /\ ctorPc = "returned"
    /\ wsPc = "exited"
    /\ watchPc = "done"
    /\ curHealth = "empty"
    /\ watchRes = "nil"

\* C22 as stated: once AggregateHealth() has returned, p.curHealth is never
\* nil, whatever the watcher emits
C22_NeverNilAfterFirst == ctorPc = "returned" => curHealth # "nil"

\* C22: a stored map is replaced by nil only when beginWatch stores a nil
\* map it received from the watcher, never by Stop(), by the watcher's exit
\* or by the deferred function; and once beginWatch has returned
\* p.curHealth is not nil
C22_NilOnlyFromWatcher ==
    /\ [][curHealth # "nil" /\ curHealth' = "nil" =>
            watchPc = "store" /\ watchRes = "nil"]_vars
    /\ [](watchPc = "done" => curHealth # "nil")

\* C22 witness: after the constructor returned the watcher sent a nil map,
\* Stop() was called, and beginWatch returned leaving the empty map
C22_Witness ==
    /\ ctorPc = "returned"
    /\ pQuit = "closed"
    /\ watchPc = "done"
    /\ watchRes = "nil"
    /\ curHealth = "empty"

\* C23: a reader that holds the lock reads every host from the map that was
\* stored when it took the lock, and the stored map does not change
\* meanwhile; after Stop() beginWatch returns in the end, and once it has
\* returned the stored map does not change any more
C23_ReadersSeeOneSnapshot ==
    /\ [](readPc = "reading" =>
            /\ readAt = curHealth
            /\ \A i \in DOMAIN readView : readView[i] = MapEntry(readAt, i))
    /\ (pQuit = "closed") ~> (watchPc = "done")
    /\ [][watchPc = "done" => curHealth' = curHealth]_vars

\* C23 witness: a reader has read the first host from one full map while
\* beginWatch waits for the lock with another full map to store
C23_Witness ==
    /\ readPc = "reading"
    /\ Len(readView) = 1
    /\ curHealth = "allPassing"
    /\ watchPc = "store"
    /\ watchRes = "allCritical"

\* -------------------------------------------------------- status endpoints
\* nodeIDsToStatusEndpoints returned one endpoint per node, in input order,
\* each <scheme>://<N>:<port><path>, https unless http is set, /_status
\* when the path is empty
EndpointsWellFormed ==
    /\ Len(epOut.urls) = Len(epNodes)
    /\ \A i \in DOMAIN epNodes :
          LET url == epOut.urls[i]
              n   == epNodes[i]
          IN  /\ url[1] = (IF epStanza.http THEN "http" ELSE "https")
              /\ url[2] = "://"
              /\ SubSeq(url, 3, Len(n) + 2) = n
              /\ url[Len(n) + 3] = ":"
              /\ url[Len(n) + 4] = epStanza.port
              /\ url[Len(n) + 5] = "/"
              /\ epStanza.path = <<>> =>
                     SubSeq(url, Len(n) + 5, Len(url)) = <<"/", "_status">>

\* a node name with none of the delimiters of a URL
PlainName(n) == \A i \in DOMAIN n : n[i] \notin {"/", "?", "#", "@", ":"}

\* C24 as stated: parsing the endpoint built from any non-empty node name
\* returns that name, and the endpoints are well formed
C24_ParseInvertsBuild ==
    epOut.res = "built" =>
        /\ EndpointsWellFormed
        /\ \A i \in DOMAIN epNodes : epOut.names[i] = epNodes[i]

\* C24: the endpoints are well formed, and parsing the endpoint built from
\* a node name without / ? # @ : returns that name
C24_ParseInvertsBuildOfPlainNames ==
    epOut.res = "built" =>
        /\ EndpointsWellFormed
        /\ \A i \in DOMAIN epNodes :
              PlainName(epNodes[i]) => epOut.names[i] = epNodes[i]

\* C24 witness: two plain names of different length, http and a path
\* without a leading slash
C24_Witness ==
    /\ epOut.res = "built"
    /\ epNodes = <<<<"a", "a">>, <<"a">>>>
    /\ epStanza.http
    /\ epStanza.path = <<"path">>
    /\ epOut.names = epNodes
    /\ epOut.urls[2] = <<"http", "://", "a", ":", epStanza.port, "/", "path">>

C26_PortZeroIsPassing ==
    ckOut.op = "pod" =>
        \A n \in Nodes : ckNodes[n] = "member" =>
            /\ ckPort = 0 => ckOut.map[n] = "passing"
            /\ (ckPort # 0 /\ ckProbe[n] # "noResponse") =>
                   ckOut.map[n] = ckProbe[n]

\* C26 witness: port 0 and a critical probe, reported as passing
C26_Witness ==
    /\ ckOut.op = "pod"
    /\ ckPort = 0
    /\ ckProbe[1] = "critical"
    /\ ckOut.map[1] = "passing"

\* ------------------------------------------- queryReality and the clock
\* C27: a queryReality that cannot get a slot of the semaphore returns a
\* timed-out error once it has waited for more than 1 minute: no call is
\* still waiting after more than 1 minute
C27_SemaphoreWaitTimesOut ==
    \A n \in Nodes : qr[n].pc = "select" => qr[n].waited <= TimeoutAfter

\* -------------------------------------------------- the reality semaphore
\* the updaters whose read of the reality store is in progress, in the
\* short-circuit check (podS) or in the reality wait (podR)
RealityReaders == {n \in Nodes : upc[n] \in {"podS", "podR"}}

\* C28: at most cap(concurrentRealityRequests) reads of the reality store
\* are in progress, in both phases together, and the slots in use are
\* exactly those of the reads in progress: a read that returns, with or
\* without error, gives its slot back
C28_RealityReadsBounded ==
    /\ Cardinality(RealityReaders) <= RealityCap
    /\ concurrentRealityRequests = Cardinality(RealityReaders)

\* C28 witness: every slot is taken by a read of the reality wait while
\* another updater waits for a slot in its short-circuit check
C28_Witness ==
    /\ concurrentRealityRequests = RealityCap
    /\ \E n \in Nodes : upc[n] = "podR"
    /\ \E n \in Nodes : upc[n] = "semS"

\* ------------------------------------------------ quitCh ends the workers
\* C29: once quitCh is closed every worker terminates and Enact() returns,
\* wherever the workers are blocked, unless the process has panicked
C29_QuitEndsWorkers ==
    (quitCh = "closed") ~>
        (panicked \/ (enactPc = "returned" /\ \A w \in Workers : wpc[w] \in {"unspawned", "done"}))

\* C29 for a run over r.nodes: the feeder closes the internal queue
C29_QuitEndsWorkersOfNodeList ==
    (quitCh = "closed" /\ nodeQueue = "nil") ~>
        (panicked \/ (enactPc = "returned" /\ \A w \in Workers : wpc[w] \in {"unspawned", "done"}))

\* ------------------------------------------------- the steps of updateOne
\* the log of updateOne for node n has an entry k
Logged(n, k) == \E i \in DOMAIN ulog.of[n] : ulog.of[n][i].k = k

\* the last entry of the log of updateOne for node n is of kind k
LastLogged(n, k) ==
    /\ ulog.of[n] # <<>>
    /\ ulog.of[n][Len(ulog.of[n])].k = k

\* the result of the last entry of the log of updateOne for node n
LastResult(n) == ulog.of[n][Len(ulog.of[n])].v

\* the log of an updateOne that sent its transaction and returned nil shows
\* an ok commit, a read of reality that gave the target hash and a read of
\* the aggregator that met the threshold, in this order
CompleteLog(log) ==
    /\ Len(log) = 4
    /\ log[1] = [k |-> "commit", v |-> "ok"]
    /\ log[2] = [k |-> "read", v |-> SHA(manifest)]
    /\ log[3].k = "health"
    /\ HealthRank(log[3].v) >= HealthRank(EffectiveThreshold)
    /\ log[4] = [k |-> "ret", v |-> "nil"]

\* C30: an updateOne that sent its transaction returns nil only after, in
\* this order, the commit was ok, a read of reality gave the target hash
\* and a read of the aggregator met the threshold; after a conflict it
\* returns at once; after a read of reality that gave another answer
\* (NoCurrentManifest, an error, another hash) and after a read of the
\* aggregator below the threshold it waits on; and in the waits it returns
\* errQuit only with quitCh closed, errTimeout only with its context done
\* and errCancelled only with replicationCancelledCh closed
C30_UpdateOneOrder ==
    /\ [](\A n \in Nodes :
            /\ (Logged(n, "commit") /\ LastLogged(n, "ret") /\ LastResult(n) = "nil") =>
                   CompleteLog(ulog.of[n])
            /\ ulog.of[n] # <<>> /\ ulog.of[n][1] = [k |-> "commit", v |-> "conflict"] =>
                   /\ ulog.of[n] = << [k |-> "commit", v |-> "conflict"],
                                      [k |-> "ret", v |-> "conflict"] >>
                   /\ upc[n] = "returned"
            /\ (LastLogged(n, "read") /\ LastResult(n) # SHA(manifest)) =>
                   upc[n] \in {"inReality", "podR"}
            /\ (LastLogged(n, "health")) =>
                   /\ HealthRank(LastResult(n)) < HealthRank(EffectiveThreshold)
                   /\ upc[n] = "healthy"
            /\ (LastLogged(n, "ret") /\ LastResult(n) = "errQuit") => quitCh = "closed"
            /\ (LastLogged(n, "ret") /\ LastResult(n) = "errCancelled") =>
                   replicationCancelledCh = "closed")
    /\ [][\A n \in Nodes :
            (ulog'.of[n] # ulog.of[n] /\ LastLogged(n, "ret")' /\ LastResult(n)' = "errTimeout") =>
                ctx[n] = "done"]_vars

\* C30 witness: the updateOne of node 1 has returned nil after its commit,
\* a read of reality with the target hash and a read of the aggregator that
\* met the threshold; another has returned errCancelled from a wait
C30_Witness ==
    /\ CompleteLog(ulog.of[1])
    /\ \E n \in Nodes :
          /\ Logged(n, "commit")
          /\ LastLogged(n, "ret")
          /\ LastResult(n) = "errCancelled"

\* ------------------------------------------------------- the health wait
\* the total order of the health states, worst first
HealthOrder == <<"unknown", "critical", "warning", "passing">>

\* the place of a status in that order
PlaceOf(st) == CHOOSE i \in DOMAIN HealthOrder : HealthOrder[i] = st

\* a status meets a configured threshold: a missing node counts as
\* critical, an empty threshold as passing
MeetsConfigured(st, th) ==
    PlaceOf(IF st = "missing" THEN "critical" ELSE st)
        >= PlaceOf(IF th = "" THEN "passing" ELSE th)

\* C31: a poll of the health wait ends the wait with nil exactly when the
\* status the aggregator gave is at least the effective threshold in the
\* order unknown < critical < warning < passing, with an empty threshold
\* read as passing and a missing node as critical; so a missing node never
\* meets a warning or passing threshold
C31_HealthWaitThreshold ==
    \A n \in Nodes :
        /\ LastLogged(n, "health") =>
               /\ ~MeetsConfigured(LastResult(n), threshold)
               /\ upc[n] = "healthy"
        /\ (LastLogged(n, "ret") /\ Logged(n, "health")) =>
               /\ LastResult(n) = "nil"
               /\ MeetsConfigured(ulog.of[n][Len(ulog.of[n]) - 1].v, threshold)
               /\ ulog.of[n][Len(ulog.of[n]) - 1].v = "missing" =>
                      threshold \in {"unknown", "critical"}

\* C31 witness: with threshold warning a node reported as warning has
\* ended its health wait and a node missing from the snapshot waits on
C31_Witness ==
    /\ threshold = "warning"
    /\ \E n \in Nodes :
          /\ LastLogged(n, "ret")
          /\ Len(ulog.of[n]) > 1
          /\ ulog.of[n][Len(ulog.of[n]) - 1] = [k |-> "health", v |-> "warning"]
    /\ \E n \in Nodes :
          /\ LastLogged(n, "health")
          /\ LastResult(n) = "missing"

\* ------------------------------------------------ SetManifest and targets
\* C32: an updater that starts after SetManifest(M2) has returned takes M2:
\* an intent write for its node writes M2 and its reality wait ends on the
\* hash of M2; the intent of a node is written once, with the manifest its
\* updater took, and SetManifest writes no intent
C32_SetManifestForLaterNodes ==
    [][\A n \in Nodes :
          /\ (upc[n] = "none" /\ upc'[n] # "none") => uman'[n] = manifest
          /\ intent'[n] # intent[n] =>
                 /\ intent[n] = "none"
                 /\ n \notin issued
                 /\ intent'[n] = uman[n]
                 /\ manifest' = manifest
          /\ (uman[n] = "M2" /\ upc[n] = "podR" /\ upc'[n] = "healthy") =>
                 ulog'.of[n][Len(ulog'.of[n])] = [k |-> "read", v |-> SHA("M2")]
      ]_vars

\* C32 witness: after SetManifest(M2) one node keeps the M1 written before
\* and a node taken up later got M2 and has ended its reality wait on the
\* hash of M2
C32_Witness ==
    /\ manifest = "M2"
    /\ \E n \in Nodes : intent[n] = "M1"
    /\ \E n \in Nodes :
          /\ intent[n] = "M2"
          /\ upc[n] = "healthy"
          /\ LastLogged(n, "read")
          /\ LastResult(n) = SHA("M2")

\* C33 as stated: once SetManifest has changed the target, the reality
\* wait of a node whose intent is written ends only on the hash of the
\* new target
C33_RealityWaitFollowsManifest ==
    [][\A n \in Nodes :
          (upc[n] = "podR" /\ upc'[n] = "healthy") =>
              ulog'.of[n][Len(ulog'.of[n])] = [k |-> "read", v |-> SHA(manifest)]
      ]_vars

\* C33: the reality wait of a node ends only on the hash of the manifest
\* its updater took when it started, which is the manifest written to the
\* node's intent, whatever SetManifest has made the target since
C33_RealityWaitKeepsTarget ==
    [][\A n \in Nodes :
          (upc[n] = "podR" /\ upc'[n] = "healthy") =>
              /\ ulog'.of[n][Len(ulog'.of[n])] = [k |-> "read", v |-> SHA(uman[n])]
              /\ intent[n] = uman[n]
      ]_vars

\* C33 witness: SetManifest(M2) came after the intent write of M1 for a
\* node, and the node's reality wait has ended on the hash of M1
C33_Witness ==
    /\ manifest = "M2"
    /\ \E n \in Nodes :
          /\ intent[n] = "M1"
          /\ upc[n] = "healthy"
          /\ LastLogged(n, "read")
          /\ LastResult(n) = SHA("M1")

\* ------------------------------------------------------ per-node deadlines
\* C34: the context of a node has a deadline iff r.timeout is not
\* NoTimeout when the worker takes the node up; SetTimeout changes the
\* context of no node; a context without deadline stays so until updateOne
\* has returned, and the updater of such a node never returns errTimeout
\* (its node is never added to timedOutReplications)
C34_DeadlineFixedAtPickup ==
    [][\A n \in Nodes :
          /\ (upc[n] = "none" /\ upc'[n] # "none") =>
                 (ctx'[n] = "deadline" <=> timeout # NoTimeout)
          /\ timeout' # timeout => ctx' = ctx
          /\ ctx[n] = "live" =>
                 /\ ctx'[n] = "live" \/ upc'[n] = "returned"
                 /\ Len(timedOutReplications') > Len(timedOutReplications) =>
                        timedOutReplications'[Len(timedOutReplications')] # n
          /\ ctx[n] = "deadline" => ctx'[n] # "live"
      ]_vars

\* C34 witness: node 1 was taken up under NoTimeout and still waits with a
\* context without deadline; SetTimeout came before another node was taken
\* up, whose updater has timed out
C34_Witness ==
    /\ timeout # NoTimeout
    /\ ctx[1] = "live"
    /\ upc[1] \in {"inReality", "healthy"}
    /\ \E i \in DOMAIN timedOutReplications : timedOutReplications[i] # 1

\* ------------------------------------------- user cancellation and Enact
\* the end handler has begun its tear-down: quitCh or errCh is closed, the
\* rate limiter is stopped or the session is destroyed
TornDown ==
    \/ quitCh = "closed"
    \/ errCh = "closed"
    \/ rateLimiter = "stopped"
    \/ session = "destroyed"

\* C35: in a run that ends by Cancel() (the session is not lost), the end
\* handler tears nothing down while Enact() is running, whenever Cancel()
\* came, and no intent write is issued once the session is destroyed
C35_CancelWaitsForEnact ==
    /\ []((replicationCancelledCh = "closed" /\ TornDown) =>
             enactPc \in {"notStarted", "returned"})
    /\ [][session = "destroyed" => issued' = issued]_vars

\* -------------------------------------------------------- sends on errCh
\* C36: no send on errCh is performed after the end handler has closed it:
\* the select of Enact() after a failed health fetch never takes its send
\* case with errCh closed (which would panic)
C36_NoSendOnClosedErrCh ==
    /\ enactPc # "panicked"
    /\ hpc = "errSend" => errCh = "open"

\* ------------------------------------------------- channels closed once
\* C37: no channel is closed twice: every Cancel() of a run over r.nodes
\* finds replicationCancelledCh open, and the end handler closes quitCh and
\* errCh and destroys the session once, each still open or live
C37_ChannelsClosedOnce ==
    [][ /\ (cancelCalls' # cancelCalls /\ nodeQueue = "nil") =>
               replicationCancelledCh = "open"
        /\ (hpc = "closeQuit" /\ hpc' # hpc) => quitCh = "open"
        /\ (hpc = "closeErr" /\ hpc' # hpc) => errCh = "open"
        /\ (hpc = "destroy" /\ hpc' # hpc) => session = "live"
      ]_vars

\* -------------------------------------------------- the end of a Cancel
\* C38: after Cancel() of a run over r.nodes quitCh is closed in the end
\* and WaitForReplication() returns, whether or not the caller still
\* receives from errCh and whether or not the health fetch of Enact()
\* fails, unless the process has panicked
C38_CancelEndsWait ==
    (replicationCancelledCh = "closed") ~>
        (panicked \/ (quitCh = "closed" /\ waitPc = "returned"))

\* ------------------------------------------ the counter after SetManifest
\* C39: an updater that read a manifest whose hash is not the hash of the
\* manifest of the replication any more (SetManifest has reset
\* completedCount since) leaves completedCount alone when it returns
C39_OldUpdaterNotCounted ==
    [][\A n \in Nodes :
          ( /\ upc[n] # "returned"
            /\ upc'[n] = "returned"
            /\ uman[n] # "none"
            /\ SHA(uman[n]) # SHA(manifest) )
          => completedCount' = completedCount
      ]_vars

\* ------------------------------------------------ updaters at Enact's end
\* C40: once Enact() has returned no updateOne is still running
C40_NoUpdaterAfterEnact ==
    enactPc = "returned" => \A n \in Nodes : upc[n] \in {"none", "returned"}

====
